---- MODULE Spec2Model ----
(***************************************************************************)
(* A model of the curve-app risk scoring engine:                           *)
(*   src/src/scoring.py                 score_with_limits, score_bad_debt, *)
(*                                      score_debt_ceiling                 *)
(*   src/src/query_and_manipulation.py  gk_volatility,                     *)
(*                                      calculate_volatility_ratio,        *)
(*                                      get_market_snapshots,              *)
(*                                      get_latest_cr_ratio_row,           *)
(*                                      defillama_price, create_daily_ohlc,*)
(*                                      get_ohlc                           *)
(*   src/main.py                        the interdependency scores, the    *)
(*                                      ultimate score, the playground     *)
(* Python floats are modelled by exact rationals <<num, den>> (den > 0,     *)
(* lowest terms) in the scoring, snapshot, aggregation and bar parts, and  *)
(* by fixed-point integers in the volatility part, where logarithms and    *)
(* square roots are taken.  The pure functions are applied once to         *)
(* arguments drawn at Init (SpecScoring, SpecVolatility, SpecSnapshots,     *)
(* SpecAggregation); the bar store is followed over several days of calls  *)
(* (SpecOhlc) and one call of defillama_price page by page (SpecPrices).   *)
(***************************************************************************)
EXTENDS Integers, Sequences, FiniteSets, TLC

VARIABLES
    call,       \* the frame of the scoring call being evaluated (its arguments)
    ret,        \* what that scoring call returned or raised
    ohlc_df,    \* the daily bar series handed to the volatility functions
    vol_fn,     \* which volatility function is applied to ohlc_df
    vol_ret,    \* what the volatility function returned or raised
    response,   \* the snapshot feed's reply (status and rows) for one market
    snap_ret,   \* get_market_snapshots' outcome: the data frame or the exception
    latest_row, \* get_latest_cr_ratio_row's outcome: the flat row or the exception
    agg_call,   \* the aggregation being evaluated: category scores (and weights)
    agg_ret,    \* its outcome: the interdependency scores and the composite
    clock,      \* the current unix time
    six_months_ago, \* the lookback start computed when the module was imported
    gap_day,    \* the day the price service has no record for (NoGap: none)
    csv,        \* the persisted bar series of the market: the CSV file
    price_memo, \* the lru_cache of defillama_price: call_query_time_from -> frame
    requests,   \* the start times of the requests made by the last get_ohlc call
    ohlc_ret,   \* the outcome of the last get_ohlc call
    price_pc,   \* where a call of defillama_price stands: call, loop or done
    call_query_time_from,   \* the start time that call was made with
    call_current_timestamp, \* the time it read when it began
    call_last_round_ts,     \* the start of its next request
    call_price_data_join,   \* the rows of the pages it has got so far
    call_elapsed_ms,        \* the milliseconds gone by since it began
    request_at,             \* the elapsed time at which each request was made
    price_ret,  \* what it returned or raised
    eval_pc,    \* where the evaluation of a market stands in main()
    eval_log,   \* the requests it has made, each with the reply it got
    eval_scores, \* the scores it has computed, each with the replies it came from
    eval_error, \* the exception that ended it ("none": none)
    data_dir,   \* the CSV files of src/data: for each path, the series persisted there
    lru,        \* the lru_cache of defillama_price: its entries, oldest first
    mkt_call,   \* the last call made with a Market: the function and its arguments
    mkt_ret,    \* what that call returned: the prices, and whether the cache had them
    mkt_calls,  \* the number of calls made with a Market so far
    shared_dir, \* the CSV files two evaluations running at once work on
    workers,    \* where each of the two evaluations stands
    wall,       \* the time, in days, while they run
    touched     \* for each CSV file, the evaluations that have read or written it

vars ==
    <<call, ret, ohlc_df, vol_fn, vol_ret, response, snap_ret, latest_row,
      agg_call, agg_ret, clock, six_months_ago, gap_day, csv, price_memo,
      requests, ohlc_ret, price_pc, call_query_time_from, call_current_timestamp,
      call_last_round_ts, call_price_data_join, call_elapsed_ms, request_at,
      price_ret, eval_pc, eval_log, eval_scores, eval_error, data_dir, lru,
      mkt_call, mkt_ret, mkt_calls, shared_dir, workers, wall, touched>>

\* the variables of each machine
scoringVars == <<call, ret>>
volatilityVars == <<ohlc_df, vol_fn, vol_ret>>
snapshotVars == <<response, snap_ret, latest_row>>
aggregationVars == <<agg_call, agg_ret>>
ohlcVars ==
    <<clock, six_months_ago, gap_day, csv, price_memo, requests, ohlc_ret>>
priceVars ==
    <<price_pc, call_query_time_from, call_current_timestamp, call_last_round_ts,
      call_price_data_join, call_elapsed_ms, request_at, price_ret>>
evalVars == <<eval_pc, eval_log, eval_scores, eval_error>>
\* the variables of the machines that follow a whole session
marketVars == <<data_dir, lru, mkt_call, mkt_ret, mkt_calls>>
parallelVars == <<shared_dir, workers, wall, touched>>
sessionVars == <<evalVars, marketVars, parallelVars>>

-----------------------------------------------------------------------------
(* Bounds of the model *)

\* limits of score_with_limits range over 0..MaxLimit
MaxLimit == 4
\* total debt ranges over 0, 1000, ..., 1000 * MaxDebtK
MaxDebtK == 2
\* bad debt ranges over 0..MaxBadDebt
MaxBadDebt == 22
\* ceilings and debts of score_debt_ceiling range over 0..MaxCeiling
MaxCeiling == 4

-----------------------------------------------------------------------------
(* Exact rational arithmetic standing for Python float arithmetic *)

Abs(x) == IF x < 0 THEN -x ELSE x

RECURSIVE GCD(_, _)
GCD(a, b) == IF b = 0 THEN a ELSE GCD(b, a % b)

\* the rational n/d (d # 0) in lowest terms with a positive denominator
Rat(n, d) ==
    LET g == GCD(Abs(n), Abs(d))
        s == IF d < 0 THEN -1 ELSE 1
    IN  <<(s * n) \div g, (s * d) \div g>>

Zero == <<0, 1>>
Half == <<1, 2>>
One  == <<1, 1>>

RAdd(x, y) == Rat(x[1] * y[2] + y[1] * x[2], x[2] * y[2])
RSub(x, y) == Rat(x[1] * y[2] - y[1] * x[2], x[2] * y[2])
RMul(x, y) == Rat(x[1] * y[1], x[2] * y[2])
\* x / y for y # 0 (callers test the divisor: Python raises on a zero divisor)
RQuot(x, y) == Rat(x[1] * y[2], x[2] * y[1])
RLe(x, y)  == x[1] * y[2] <= y[1] * x[2]
RLt(x, y)  == x[1] * y[2] <  y[1] * x[2]
RGe(x, y)  == RLe(y, x)
RIsZero(x) == x[1] = 0

\* The outcome of a call: a returned float, or a raised exception
Returned(v) == [kind |-> "return", val |-> v,    exc |-> "none"]
Raised(e)   == [kind |-> "raise",  val |-> Zero, exc |-> e]
NoRet       == [kind |-> "none",   val |-> Zero, exc |-> "none"]

\* Python's float division: x / y raises ZeroDivisionError when y = 0
Div(x, y) == IF RIsZero(y) THEN Raised("ZeroDivisionError") ELSE Returned(RQuot(x, y))

\* c + k * q, where q is the outcome of a division (an exception propagates)
Affine(c, k, q) == IF q.kind = "raise" THEN q ELSE Returned(RAdd(c, RMul(k, q.val)))

-----------------------------------------------------------------------------
(* src/src/scoring.py *)

\* variant with a slip: the default mid taken as half the range, (upper - lower) / 2
MidLimit_HalfRange(upper_limit, lower_limit, mid_limit) ==
    IF mid_limit = << >>
    THEN RQuot(RSub(upper_limit, lower_limit), <<2, 1>>)
    ELSE mid_limit[1]

\* line 22: the default mid_limit; mid_limit is << >> for None, <<m>> when given
MidLimit(upper_limit, lower_limit, mid_limit) ==
    IF mid_limit = << >>
    THEN RQuot(RAdd(upper_limit, lower_limit), <<2, 1>>)
    ELSE mid_limit[1]

\* variant with a slip: the lower-is-better piece not mirrored (1.0 - ... dropped)
ScoreLowerToMid_NotMirrored(score_this, lower_limit, mid, direction) ==
    Affine(Zero, One,
           Div(RMul(Half, RSub(score_this, lower_limit)), RSub(mid, lower_limit)))

\* lines 32 and 44: the piece between lower and mid
ScoreLowerToMid(score_this, lower_limit, mid, direction) ==
    LET q == Div(RMul(Half, RSub(score_this, lower_limit)), RSub(mid, lower_limit))
    IN  IF direction THEN Affine(Zero, One, q) ELSE Affine(One, <<-1, 1>>, q)

\* variant with a slip: the upper piece without its factor 0.5
ScoreMidToUpper_FullSlope(score_this, upper_limit, mid, direction) ==
    LET q == Div(RSub(score_this, mid), RSub(upper_limit, mid))
    IN  IF direction THEN Affine(Half, One, q) ELSE Affine(Half, <<-1, 1>>, q)

\* lines 35 and 47: the piece between mid and upper
ScoreMidToUpper(score_this, upper_limit, mid, direction) ==
    LET q == Div(RMul(Half, RSub(score_this, mid)), RSub(upper_limit, mid))
    IN  IF direction THEN Affine(Half, One, q) ELSE Affine(Half, <<-1, 1>>, q)

score_with_limits(score_this, upper_limit, lower_limit, direction, mid_limit) ==
    LET mid == MidLimit(upper_limit, lower_limit, mid_limit)
    IN  IF direction
        THEN IF RGe(score_this, upper_limit) THEN Returned(One)
             ELSE IF RLe(score_this, lower_limit) THEN Returned(Zero)
             ELSE IF RLe(score_this, mid)
                  THEN ScoreLowerToMid(score_this, lower_limit, mid, direction)
                  ELSE ScoreMidToUpper(score_this, upper_limit, mid, direction)
        ELSE IF RGe(score_this, upper_limit) THEN Returned(Zero)
             ELSE IF RLe(score_this, lower_limit) THEN Returned(One)
             ELSE IF RLe(score_this, mid)
                  THEN ScoreLowerToMid(score_this, lower_limit, mid, direction)
                  ELSE ScoreMidToUpper(score_this, upper_limit, mid, direction)

\* variant with a slip: the 0.1% threshold written as 1%
BadDebtMidRatio_Percent == <<1, 100>>

\* the float literals 0.001 and 0.01 of lines 57-62
BadDebtMidRatio  == <<1, 1000>>
BadDebtZeroRatio == <<1, 100>>

score_bad_debt(bad_debt, current_debt) ==
    IF RIsZero(bad_debt) THEN Returned(One)
    ELSE IF RLt(bad_debt, RMul(BadDebtMidRatio, current_debt))
         THEN Affine(Half, Half, Div(bad_debt, RMul(BadDebtMidRatio, current_debt)))
    ELSE IF RLt(bad_debt, RMul(BadDebtZeroRatio, current_debt))
         THEN Affine(Zero, Half, Div(bad_debt, RMul(BadDebtZeroRatio, current_debt)))
    ELSE Returned(Zero)

\* variant with a slip: the first test strict (current ceiling < recommended)
score_debt_ceiling_StrictCeiling(recommended_debt_ceiling, current_debt_ceiling, current_debt) ==
    IF RLt(current_debt_ceiling, recommended_debt_ceiling) THEN Returned(One)
    ELSE IF RLe(current_debt, recommended_debt_ceiling)
         THEN Affine(Half, Half,
                     Div(RSub(recommended_debt_ceiling, current_debt),
                         recommended_debt_ceiling))
    ELSE Returned(Zero)

score_debt_ceiling(recommended_debt_ceiling, current_debt_ceiling, current_debt) ==
    IF RLe(current_debt_ceiling, recommended_debt_ceiling) THEN Returned(One)
    ELSE IF RLe(current_debt, recommended_debt_ceiling)
         THEN Affine(Half, Half,
                     Div(RSub(recommended_debt_ceiling, current_debt),
                         recommended_debt_ceiling))
    ELSE Returned(Zero)

-----------------------------------------------------------------------------
(* The scoring calls: every call draws its arguments at Init and is applied once *)

Limits == {Rat(k, 1) : k \in 0..MaxLimit}
\* values to score: half steps from below the lowest limit to above the highest
ScoreValues == {Rat(k, 2) : k \in (-2)..(2 * MaxLimit + 2)}
MidLimits == {<< >>} \cup {<<m>> : m \in Limits}

LimitCalls ==
    [fn : {"score_with_limits"}, score_this : ScoreValues, upper_limit : Limits,
     lower_limit : Limits, direction : BOOLEAN, mid_limit : MidLimits]

BadDebtCalls ==
    [fn : {"score_bad_debt"},
     bad_debt : {Rat(b, 1) : b \in 0..MaxBadDebt},
     current_debt : {Rat(1000 * k, 1) : k \in 0..MaxDebtK}]

Ceilings == {Rat(k, 1) : k \in 0..MaxCeiling}

DebtCeilingCalls ==
    [fn : {"score_debt_ceiling"}, recommended_debt_ceiling : Ceilings,
     current_debt_ceiling : Ceilings, current_debt : Ceilings]

ScoreWithLimits ==
    /\ call.fn = "score_with_limits"
    /\ ret.kind = "none"
    /\ ret' = score_with_limits(call.score_this, call.upper_limit, call.lower_limit,
                                call.direction, call.mid_limit)
    /\ UNCHANGED <<sessionVars, call, volatilityVars, snapshotVars, aggregationVars, ohlcVars,
                   priceVars>>

ScoreBadDebt ==
    /\ call.fn = "score_bad_debt"
    /\ ret.kind = "none"
    /\ ret' = score_bad_debt(call.bad_debt, call.current_debt)
    /\ UNCHANGED <<sessionVars, call, volatilityVars, snapshotVars, aggregationVars, ohlcVars,
                   priceVars>>

ScoreDebtCeiling ==
    /\ call.fn = "score_debt_ceiling"
    /\ ret.kind = "none"
    /\ ret' = score_debt_ceiling(call.recommended_debt_ceiling,
                                 call.current_debt_ceiling, call.current_debt)
    /\ UNCHANGED <<sessionVars, call, volatilityVars, snapshotVars, aggregationVars, ohlcVars,
                   priceVars>>

NoBars == << >>
NoResponse == [status |-> 0, data |-> << >>]
NoVolRet == [kind |-> "none"]
NoSnapRet == [kind |-> "none"]
NoLatestRow == [kind |-> "none"]

\* a machine that is not running: nothing called, nothing returned
IdleScoring == call = [fn |-> "none"] /\ ret = NoRet
IdleVolatility == ohlc_df = NoBars /\ vol_fn = "none" /\ vol_ret = NoVolRet
IdleSnapshots ==
    response = NoResponse /\ snap_ret = NoSnapRet /\ latest_row = NoLatestRow
IdleAggregation == agg_call = [fn |-> "none"] /\ agg_ret = [kind |-> "none"]
IdleOhlc ==
    /\ clock = 0 /\ six_months_ago = 0 /\ gap_day = 0 - 1
    /\ csv = [exists |-> FALSE, rows |-> << >>] /\ price_memo = << >>
    /\ requests = << >> /\ ohlc_ret = [kind |-> "none"]
IdlePrices ==
    /\ price_pc = "idle" /\ call_query_time_from = 0 /\ call_current_timestamp = 0
    /\ call_last_round_ts = 0 /\ call_price_data_join = << >>
    /\ call_elapsed_ms = 0 /\ request_at = << >> /\ price_ret = [kind |-> "none"]
IdleEvaluation ==
    /\ eval_pc = "idle" /\ eval_log = << >> /\ eval_scores = {}
    /\ eval_error = "none"
IdleMarkets ==
    /\ data_dir = << >> /\ lru = << >> /\ mkt_call = [fn |-> "none"]
    /\ mkt_ret = [hit |-> FALSE, prices |-> {}] /\ mkt_calls = 0
IdleParallel ==
    shared_dir = << >> /\ workers = << >> /\ wall = 0 /\ touched = << >>
IdleSession == IdleEvaluation /\ IdleMarkets /\ IdleParallel

InitScoring ==
    /\ call \in LimitCalls \cup BadDebtCalls \cup DebtCeilingCalls
    /\ ret = NoRet
    /\ IdleVolatility
    /\ IdleSnapshots
    /\ IdleAggregation
    /\ IdleOhlc
    /\ IdlePrices
    /\ IdleSession

NextScoring == ScoreWithLimits \/ ScoreBadDebt \/ ScoreDebtCeiling

SpecScoring == InitScoring /\ [][NextScoring]_vars

-----------------------------------------------------------------------------
(* src/src/query_and_manipulation.py: the volatility estimator                *)
(*                                                                          *)
(* Prices lie on a geometric grid, price = PriceStep ^ level, so that        *)
(* np.log(a / b) is the level difference in units of ln(PriceStep).  Floats  *)
(* are fixed-point integers in units of 1 / FixedOne, rounded down after     *)
(* every division, or NaN.                                                   *)

\* the fixed-point unit: the float 1.0
FixedOne == 10000
\* 2 * np.log(2) - 1 = 0.3863 in fixed point
GKCoef == 3863
\* the rolling windows of calculate_volatility_ratio
Window30 == 30
Window90 == 90

\* series longer than the long window by up to ExtraBars bars are drawn
ExtraBars == 1

NaN == [nan |-> TRUE, v |-> 0]
Num(x) == [nan |-> FALSE, v |-> x]

\* np.log(a / b) for prices at levels a and b, in fixed point
Log(a, b) == (a - b) * FixedOne

\* x.pow(2), in fixed point
Pow2(x) == (x * x) \div FixedOne

RECURSIVE SumTo(_, _, _)
\* x[from] + ... + x[to] of a column x
SumTo(x, from, to) == IF from > to THEN 0 ELSE x[to] + SumTo(x, from, to - 1)

\* Series.mean() of a non-empty column without missing values
Mean(x) == SumTo(x, 1, Len(x)) \div Len(x)

\* Series.rolling(window).mean(): NaN until the window is full
RollingMean(x, window) ==
    [i \in 1..Len(x) |->
        IF i < window THEN NaN ELSE Num(SumTo(x, i - window + 1, i) \div window)]

\* Series.iloc[-1] of a non-empty column
Last(x) == x[Len(x)]

RECURSIVE ISqrt(_)
\* the integer square root, rounded down
ISqrt(n) ==
    IF n < 2 THEN n
    ELSE LET s == 2 * ISqrt(n \div 4)
         IN  IF (s + 1) * (s + 1) > n THEN s ELSE s + 1

\* np.sqrt(x) in fixed point
Sqrt(x) == ISqrt(x * FixedOne)

\* lines 330-331 and 447-448: the columns of log ranges
log_hl(df) == [i \in 1..Len(df) |-> Log(df[i].high, df[i].low)]
log_co(df) == [i \in 1..Len(df) |-> Log(df[i].close, df[i].open)]

\* line 334: the column 0.5 * log_hl^2 - (2 ln 2 - 1) * log_co^2
GKTerms(df) ==
    [i \in 1..Len(df) |->
        Pow2(log_hl(df)[i]) \div 2 - (GKCoef * Pow2(log_co(df)[i])) \div FixedOne]

\* variant with a slip: only a negative variance is sent to NaN
VarianceUndefined_Negative(variance) == variance < 0

\* lines 337-338: the test that sends a variance to NaN
VarianceUndefined(variance) == variance <= 0

gk_volatility(df) ==
    LET variance == Mean(GKTerms(df))
    IN  IF VarianceUndefined(variance)
        THEN [kind |-> "return", val |-> NaN]
        ELSE [kind |-> "return", val |-> Num(Sqrt(variance))]

\* lines 464-465: 0.5 * hl - (2 ln 2 - 1) * co on rolling means (NaN propagates)
GKVariance(hl, co) ==
    IF hl.nan \/ co.nan THEN NaN
    ELSE Num(hl.v \div 2 - (GKCoef * co.v) \div FixedOne)

\* lines 472-473: np.sqrt(max(variance, 0)); Python's max keeps a NaN first argument
ClampedSqrt(variance) ==
    IF variance.nan THEN NaN
    ELSE Num(Sqrt(IF 0 > variance.v THEN 0 ELSE variance.v))

\* variant with a slip: no guard on the divisor (numpy's 0 / 0 is NaN, x / 0 is inf)
VolRatio_Unguarded(vol_30d, vol_90d) ==
    IF vol_30d.nan \/ vol_90d.nan \/ vol_90d.v = 0 THEN NaN
    ELSE Num((vol_30d.v * FixedOne) \div vol_90d.v)

\* line 476: vol_30d / vol_90d if vol_90d != 0 else 1.0 (NaN != 0 holds)
VolRatio(vol_30d, vol_90d) ==
    IF ~vol_90d.nan /\ vol_90d.v = 0 THEN Num(FixedOne)
    ELSE IF vol_30d.nan \/ vol_90d.nan THEN NaN
    ELSE Num((vol_30d.v * FixedOne) \div vol_90d.v)

calculate_volatility_ratio(df) ==
    LET hl2 == [i \in 1..Len(df) |-> Pow2(log_hl(df)[i])]
        co2 == [i \in 1..Len(df) |-> Pow2(log_co(df)[i])]
        hl_90d == RollingMean(hl2, Window90)
        co_90d == RollingMean(co2, Window90)
        hl_30d == RollingMean(hl2, Window30)
        co_30d == RollingMean(co2, Window30)
        variance_90d == Last([i \in 1..Len(df) |-> GKVariance(hl_90d[i], co_90d[i])])
        variance_30d == Last([i \in 1..Len(df) |-> GKVariance(hl_30d[i], co_30d[i])])
        vol_90d == ClampedSqrt(variance_90d)
        vol_30d == ClampedSqrt(variance_30d)
    IN  [kind |-> "return", vol_30d |-> vol_30d, vol_90d |-> vol_90d,
         ratio |-> VolRatio(vol_30d, vol_90d)]

(* The bar series the estimators are applied to *)

\* two neighbouring prices of the grid
PriceLevels == {0, 1}

\* a row of the bar series as read from the cache file: any four prices
Bars == [open : PriceLevels, high : PriceLevels, low : PriceLevels, close : PriceLevels]

\* segment lengths at and around the two windows
SegmentLens ==
    {0, 1, Window30 - 1, Window30, Window90 - Window30, Window90 - 1}
        \cup Window90..(Window90 + ExtraBars)

\* a head of h bars of one kind followed by a tail of t bars of another kind
BarSeries ==
    {[i \in 1..(h + t) |-> IF i <= h THEN b1 ELSE b2] :
        <<h, t>> \in {x \in SegmentLens \X SegmentLens :
                        x[1] + x[2] >= 1 /\ x[1] + x[2] <= Window90 + ExtraBars},
        b1 \in Bars, b2 \in Bars}

GkVolatility ==
    /\ vol_fn = "gk_volatility"
    /\ vol_ret.kind = "none"
    /\ vol_ret' = gk_volatility(ohlc_df)
    /\ UNCHANGED <<sessionVars, scoringVars, ohlc_df, vol_fn, snapshotVars, aggregationVars, ohlcVars,
                   priceVars>>

CalculateVolatilityRatio ==
    /\ vol_fn = "calculate_volatility_ratio"
    /\ vol_ret.kind = "none"
    /\ vol_ret' = calculate_volatility_ratio(ohlc_df)
    /\ UNCHANGED <<sessionVars, scoringVars, ohlc_df, vol_fn, snapshotVars, aggregationVars, ohlcVars,
                   priceVars>>

InitVolatility ==
    /\ IdleScoring
    /\ ohlc_df \in BarSeries
    /\ vol_fn \in {"gk_volatility", "calculate_volatility_ratio"}
    /\ vol_ret = NoVolRet
    /\ IdleSnapshots
    /\ IdleAggregation
    /\ IdleOhlc
    /\ IdlePrices
    /\ IdleSession

NextVolatility == GkVolatility \/ CalculateVolatilityRatio

SpecVolatility == InitVolatility /\ [][NextVolatility]_vars

-----------------------------------------------------------------------------
(* src/src/query_and_manipulation.py: get_market_snapshots                   *)
(*                                                                          *)
(* A float column value is a rational, NaN or an infinity.                   *)

\* the rolling windows of the collateral-ratio averages
SnapWindow30 == 30
SnapWindow7 == 7

\* snapshot series longer than the long window by up to ExtraRows rows are drawn
ExtraRows == 1

FNaN == [k |-> "nan", v |-> Zero]
FInf(sign) == [k |-> "inf", v |-> <<sign, 1>>]
FNum(x) == [k |-> "num", v |-> x]

\* numpy's float division of column values: no exception, x / 0 is inf, 0 / 0 is NaN
FDiv(x, y) ==
    IF x.k = "nan" \/ y.k = "nan" THEN FNaN
    ELSE IF x.k = "inf" /\ y.k = "inf" THEN FNaN
    ELSE IF x.k = "inf"
         THEN FInf(IF RLt(y.v, Zero) THEN -(x.v[1]) ELSE x.v[1])
    ELSE IF y.k = "inf" THEN FNum(Zero)
    ELSE IF RIsZero(y.v)
         THEN IF RIsZero(x.v) THEN FNaN
              ELSE FInf(IF RLt(x.v, Zero) THEN -1 ELSE 1)
    ELSE FNum(RQuot(x.v, y.v))

RECURSIVE InsertByDt(_, _)
\* row r put into the rows sorted by dt ascending
InsertByDt(r, sorted) ==
    IF sorted = << >> THEN <<r>>
    ELSE IF r.dt < Head(sorted).dt THEN <<r>> \o sorted
    ELSE <<Head(sorted)>> \o InsertByDt(r, Tail(sorted))

RECURSIVE SortByDt(_)
\* line 60: df.sort_index() on the dt index
SortByDt(rows) ==
    IF rows = << >> THEN << >> ELSE InsertByDt(Head(rows), SortByDt(Tail(rows)))

RECURSIVE RSumTo(_, _, _)
\* x[from] + ... + x[to] for a column of finite numbers
RSumTo(x, from, to) ==
    IF from > to THEN Zero ELSE RAdd(x[to].v, RSumTo(x, from, to - 1))

\* variant with a slip: a rolling mean is given as soon as one row is in the window
MinPeriods_One(window) == 1

\* lines 64 and 66: rolling(window) asks for min_periods = window rows
MinPeriods(window) == window

\* lines 64 and 66: Series.rolling(window).mean(): at each row the mean of the rows
\* of the window, NaN while the window holds fewer than min_periods rows (and when a
\* value in the window is not a finite number)
SnapRollingMean(x, window) ==
    [i \in 1..Len(x) |->
        LET from == IF i - window + 1 < 1 THEN 1 ELSE i - window + 1
            rows_in_window == i - from + 1
        IN  IF rows_in_window < MinPeriods(window) THEN FNaN
            ELSE IF \E j \in from..i : x[j].k # "num" THEN FNaN
            ELSE FNum(RQuot(RSumTo(x, from, i), <<rows_in_window, 1>>))]

\* line 62: total_collateral_usd / total_debt of one row
CrRatio(row) == FDiv(FNum(Rat(row.total_collateral_usd, 1)), FNum(Rat(row.total_debt, 1)))

\* lines 41-42: requests.get and raise_for_status
RaiseForStatus(status) == status >= 400

get_market_snapshots(resp) ==
    IF RaiseForStatus(resp.status) THEN [kind |-> "raise", exc |-> "HTTPError", df |-> << >>]
    ELSE IF resp.data = << >>
         \* an empty frame has no columns: df["total_collateral_usd"] raises
         THEN [kind |-> "raise", exc |-> "KeyError", df |-> << >>]
    ELSE LET rows == SortByDt(resp.data)
             cr_ratio == [i \in 1..Len(rows) |-> CrRatio(rows[i])]
             cr_ratio_30d == SnapRollingMean(cr_ratio, SnapWindow30)
             cr_ratio_7d == SnapRollingMean(cr_ratio, SnapWindow7)
         IN  [kind |-> "return", exc |-> "none",
              df |-> [i \in 1..Len(rows) |->
                        [dt |-> rows[i].dt,
                         cr_ratio |-> cr_ratio[i],
                         cr_ratio_30d |-> cr_ratio_30d[i],
                         cr_ratio_7d |-> cr_ratio_7d[i],
                         cr_7d_30d |-> FDiv(cr_ratio_7d[i], cr_ratio_30d[i])]]]

(* The replies of the snapshot feed *)

\* collateral (USD) and debt of a snapshot of a market with debt
SnapshotAmounts ==
    [total_collateral_usd : {1500000, 3000000}, total_debt : {1000000, 2000000}]

\* segment lengths at and around the two windows
SnapSegmentLens ==
    {0, 1, SnapWindow7 - 1, SnapWindow7, SnapWindow30 - SnapWindow7, SnapWindow30 - 1}
        \cup SnapWindow30..(SnapWindow30 + ExtraRows)

\* days 1..n: a head of h snapshots of one kind, then a tail of t of another kind
SnapshotSeries ==
    {[i \in 1..(h + t) |->
        [dt |-> i,
         total_collateral_usd |-> IF i <= h THEN a1.total_collateral_usd
                                            ELSE a2.total_collateral_usd,
         total_debt |-> IF i <= h THEN a1.total_debt ELSE a2.total_debt]] :
        <<h, t>> \in {x \in SnapSegmentLens \X SnapSegmentLens :
                        x[1] + x[2] <= SnapWindow30 + ExtraRows},
        a1 \in SnapshotAmounts, a2 \in SnapshotAmounts}

\* the same rows, newest first
Reversed(rows) == [i \in 1..Len(rows) |-> rows[Len(rows) + 1 - i]]

\* the feed answers with the rows oldest first or newest first, or with an error
Responses ==
    {[status |-> 200, data |-> rows] : rows \in SnapshotSeries}
        \cup {[status |-> 200, data |-> Reversed(rows)] : rows \in SnapshotSeries}
        \cup {[status |-> st, data |-> << >>] : st \in {404, 500}}

GetMarketSnapshots ==
    /\ snap_ret.kind = "none"
    /\ snap_ret' = get_market_snapshots(response)
    /\ UNCHANGED <<sessionVars, scoringVars, volatilityVars, response, latest_row, aggregationVars,
                   ohlcVars, priceVars>>

\* lines 99-107: the last row of the frame as a flat mapping of the four ratios
LatestRow(df) ==
    LET latest_row_of_df == df[Len(df)]
    IN  [cr_ratio |-> latest_row_of_df.cr_ratio,
         cr_ratio_7d |-> latest_row_of_df.cr_ratio_7d,
         cr_ratio_30d |-> latest_row_of_df.cr_ratio_30d,
         cr_7d_30d |-> latest_row_of_df.cr_7d_30d]

\* lines 94-97: the row of four 0.0 returned for an empty frame
ZeroRow ==
    [cr_ratio |-> FNum(Zero), cr_ratio_7d |-> FNum(Zero),
     cr_ratio_30d |-> FNum(Zero), cr_7d_30d |-> FNum(Zero)]

\* lines 72-107: the call of get_market_snapshots at line 91 is not guarded, so
\* what it raises leaves get_latest_cr_ratio_row too
get_latest_cr_ratio_row(resp) ==
    LET snapshots == get_market_snapshots(resp)
    IN  IF snapshots.kind = "raise"
        THEN [kind |-> "raise", exc |-> snapshots.exc, row |-> ZeroRow]
        ELSE IF snapshots.df = << >>
             THEN [kind |-> "return", exc |-> "none", row |-> ZeroRow]
        ELSE [kind |-> "return", exc |-> "none", row |-> LatestRow(snapshots.df)]

GetLatestCrRatioRow ==
    /\ latest_row.kind = "none"
    /\ latest_row' = get_latest_cr_ratio_row(response)
    /\ UNCHANGED <<sessionVars, scoringVars, volatilityVars, response, snap_ret, aggregationVars,
                   ohlcVars, priceVars>>

InitSnapshots ==
    /\ IdleScoring
    /\ IdleVolatility
    /\ response \in Responses
    /\ snap_ret = NoSnapRet
    /\ latest_row = NoLatestRow
    /\ IdleAggregation
    /\ IdleOhlc
    /\ IdlePrices
    /\ IdleSession

NextSnapshots == GetMarketSnapshots \/ GetLatestCrRatioRow

SpecSnapshots == InitSnapshots /\ [][NextSnapshots]_vars

-----------------------------------------------------------------------------
(* src/main.py: the aggregation of the category scores                       *)
(*   dashboard  (lines 480-571): the two interdependency scores and the      *)
(*              ultimate score, with the weights written in the code         *)
(*   playground (lines 605-744): the same with scores and weights typed in   *)

RECURSIVE InsertSorted(_, _)
\* x put into an ascending sequence of floats
InsertSorted(x, sorted) ==
    IF sorted = << >> THEN <<x>>
    ELSE IF RLe(x, Head(sorted)) THEN <<x>> \o sorted
    ELSE <<Head(sorted)>> \o InsertSorted(x, Tail(sorted))

RECURSIVE Sorted(_)
\* the values in ascending order
Sorted(xs) == IF xs = << >> THEN << >> ELSE InsertSorted(Head(xs), Sorted(Tail(xs)))

\* variant with a slip: the smallest value is taken, as the captions say
Median_Minimum(xs) == Sorted(xs)[1]

\* np.median of a non-empty list: the middle value of the sorted list, the mean of
\* the two middle values when the length is even
Median(xs) ==
    LET s == Sorted(xs)
        n == Len(s)
    IN  IF n % 2 = 1 THEN s[(n + 1) \div 2]
        ELSE RQuot(RAdd(s[n \div 2], s[n \div 2 + 1]), <<2, 1>>)

(* dashboard *)

\* line 485
interdependency_score_price_momentum(s) ==
    Median(<<s.aggregate_prob_drop_score, s.debt_ceiling_score,
             s.aggregate_cr_score, s.aggregate_borrower_distribution_score>>)

\* line 506
interdependency_score_volatility(s) ==
    Median(<<s.aggregate_vol_ratio_score, s.sl_responsiveness_score,
             s.sl_profitability_score, s.aggregate_collateral_under_sl_score,
             s.aggregate_borrower_distribution_score>>)

\* variant with a slip: bad debt keeps its weight of version 1.5.0
UltimateTerms_OldBadDebtWeight ==
    <<[score |-> "interdependency_score_volatility", weight |-> 6],
      [score |-> "interdependency_score_price_momentum", weight |-> 6],
      [score |-> "bad_debt_score", weight |-> 6],
      [score |-> "debt_ceiling_score", weight |-> 13],
      [score |-> "aggregate_cr_score", weight |-> 10],
      [score |-> "aggregate_collateral_under_sl_score", weight |-> 10],
      [score |-> "aggregate_vol_ratio_score", weight |-> 10],
      [score |-> "aggregate_prob_drop_score", weight |-> 8],
      [score |-> "aggregate_borrower_distribution_score", weight |-> 8],
      [score |-> "sl_responsiveness_score", weight |-> 8],
      [score |-> "sl_profitability_score", weight |-> 8]>>

\* lines 543-553: the terms of the sum, in the order written
UltimateTerms ==
    <<[score |-> "interdependency_score_volatility", weight |-> 6],
      [score |-> "interdependency_score_price_momentum", weight |-> 6],
      [score |-> "bad_debt_score", weight |-> 13],
      [score |-> "debt_ceiling_score", weight |-> 13],
      [score |-> "aggregate_cr_score", weight |-> 10],
      [score |-> "aggregate_collateral_under_sl_score", weight |-> 10],
      [score |-> "aggregate_vol_ratio_score", weight |-> 10],
      [score |-> "aggregate_prob_drop_score", weight |-> 8],
      [score |-> "aggregate_borrower_distribution_score", weight |-> 8],
      [score |-> "sl_responsiveness_score", weight |-> 8],
      [score |-> "sl_profitability_score", weight |-> 8]>>

\* lines 559-571: the breakdown table shown next to the score; the weight is the
\* number of the "13%" text
components ==
    <<[name |-> "Bad Debt", score |-> "bad_debt_score", weight |-> 13],
      [name |-> "Debt Ceiling", score |-> "debt_ceiling_score", weight |-> 13],
      [name |-> "Collateral Ratio", score |-> "aggregate_cr_score", weight |-> 10],
      [name |-> "Collateral Under SL",
       score |-> "aggregate_collateral_under_sl_score", weight |-> 10],
      [name |-> "Volatility & Beta", score |-> "aggregate_vol_ratio_score",
       weight |-> 10],
      [name |-> "Price Drop", score |-> "aggregate_prob_drop_score", weight |-> 8],
      [name |-> "Borrower Distribution",
       score |-> "aggregate_borrower_distribution_score", weight |-> 8],
      [name |-> "SL Responsiveness", score |-> "sl_responsiveness_score",
       weight |-> 8],
      [name |-> "SL Profitability", score |-> "sl_profitability_score",
       weight |-> 8],
      [name |-> "Interdependency (Volatility)",
       score |-> "interdependency_score_volatility", weight |-> 6],
      [name |-> "Interdependency (Price Momentum)",
       score |-> "interdependency_score_price_momentum", weight |-> 6]>>

RECURSIVE WeightedSum(_, _, _)
\* value[terms[1].score] * terms[1].weight + ... over the first n terms
WeightedSum(value, terms, n) ==
    IF n = 0 THEN Zero
    ELSE RAdd(WeightedSum(value, terms, n - 1),
              RMul(value[terms[n].score], <<terms[n].weight, 1>>))

\* the category scores together with the two interdependency scores
WithInterdependency(s) ==
    [k \in DOMAIN s \cup {"interdependency_score_volatility",
                          "interdependency_score_price_momentum"} |->
        IF k = "interdependency_score_volatility"
            THEN interdependency_score_volatility(s)
        ELSE IF k = "interdependency_score_price_momentum"
            THEN interdependency_score_price_momentum(s)
        ELSE s[k]]

\* lines 543-553
ultimate_score(s) ==
    RQuot(WeightedSum(WithInterdependency(s), UltimateTerms, Len(UltimateTerms)),
          <<100, 1>>)

(* playground *)

\* lines 610-626: the nine sliders
Metrics ==
    {"Debt Ceiling", "Market Bad Debt", "Volatility Performance",
     "Market Collateral Ratio", "% of Loans in SL", "Price Drop Probability",
     "Average Arb Profit", "SL Responsiveness", "Borrower Concentration"}

\* lines 728-729: the keys of scores (and of weights) once the two interdependency
\* entries are added, in insertion order
ScoreKeys ==
    <<"Debt Ceiling", "Market Bad Debt", "Volatility Performance",
      "Market Collateral Ratio", "% of Loans in SL", "Price Drop Probability",
      "Average Arb Profit", "SL Responsiveness", "Borrower Concentration",
      "Momentum Interdependency", "Volatility Interdependency">>

\* lines 612-624, 706, 723: the weight each input starts with
DefaultWeight(k) ==
    IF k \in {"Debt Ceiling", "Market Bad Debt"} THEN 13
    ELSE IF k \in {"Volatility Performance", "Market Collateral Ratio",
                   "% of Loans in SL"} THEN 10
    ELSE IF k \in {"Momentum Interdependency", "Volatility Interdependency"} THEN 6
    ELSE 8

\* line 684
price_metrics ==
    <<"Price Drop Probability", "Debt Ceiling", "Market Collateral Ratio",
      "Borrower Concentration">>

\* line 685
vol_metrics ==
    <<"Volatility Performance", "SL Responsiveness", "Average Arb Profit",
      "% of Loans in SL", "Borrower Concentration">>

\* line 699
momentum_score(scores) ==
    Median([i \in 1..Len(price_metrics) |-> scores[price_metrics[i]]])

\* line 716
volatility_score(scores) ==
    Median([i \in 1..Len(vol_metrics) |-> scores[vol_metrics[i]]])

\* lines 728-729: scores with the two interdependency entries
AllScores(scores) ==
    [k \in {ScoreKeys[i] : i \in 1..Len(ScoreKeys)} |->
        IF k = "Momentum Interdependency" THEN momentum_score(scores)
        ELSE IF k = "Volatility Interdependency" THEN volatility_score(scores)
        ELSE scores[k]]

RECURSIVE SumWeights(_, _)
\* line 734: sum(weights.values()) over the first n keys
SumWeights(weights, n) ==
    IF n = 0 THEN 0 ELSE SumWeights(weights, n - 1) + weights[ScoreKeys[n]]

\* variant with a slip: the weights are used as typed in, whatever their sum
NeedsNormalizing_Never(total_weight) == FALSE

\* line 737
NeedsNormalizing(total_weight) == total_weight # 100

\* variant with a slip: the division is numpy's, 0 / 0 gives nan without raising
IntDiv_Silent(v, total_weight) ==
    [kind |-> "return", exc |-> "none",
     q |-> FDiv(FNum(<<v, 1>>), FNum(<<total_weight, 1>>))]

\* line 739: v/total_weight of two Python ints raises on a zero divisor
IntDiv(v, total_weight) ==
    IF total_weight = 0
    THEN [kind |-> "raise", exc |-> "ZeroDivisionError", q |-> FNaN]
    ELSE [kind |-> "return", exc |-> "none", q |-> FNum(Rat(v, total_weight))]

\* line 739: v/total_weight*100 for one weight
NormalizedWeight(v, total_weight) ==
    LET d == IntDiv(v, total_weight)
    IN  IF d.kind = "raise" \/ d.q.k # "num" THEN d
        ELSE [d EXCEPT !.q = FNum(RMul(d.q.v, <<100, 1>>))]

\* lines 737-741
normalized_weights(weights) ==
    LET total_weight == SumWeights(weights, Len(ScoreKeys))
    IN  [k \in DOMAIN weights |->
            IF NeedsNormalizing(total_weight)
            THEN NormalizedWeight(weights[k], total_weight)
            ELSE [kind |-> "return", exc |-> "none", q |-> FNum(<<weights[k], 1>>)]]

RECURSIVE SumScores(_, _, _)
\* line 744: scores[k] * normalized_weights[k]/100 summed over the first n keys
SumScores(scores, nw, n) ==
    IF n = 0 THEN Zero
    ELSE RAdd(SumScores(scores, nw, n - 1),
              RQuot(RMul(scores[ScoreKeys[n]], nw[ScoreKeys[n]].q.v), <<100, 1>>))

\* lines 733-744: the outcome of the playground for the sliders and weight inputs
final_score(scores, weights) ==
    LET all == AllScores(scores)
        nw == normalized_weights(weights)
    IN  IF \E k \in DOMAIN nw : nw[k].kind = "raise"
        THEN [kind |-> "raise", exc |-> "ZeroDivisionError",
              momentum |-> all["Momentum Interdependency"],
              volatility |-> all["Volatility Interdependency"], score |-> FNaN]
        ELSE [kind |-> "return", exc |-> "none",
              momentum |-> all["Momentum Interdependency"],
              volatility |-> all["Volatility Interdependency"],
              score |-> IF \E k \in DOMAIN nw : nw[k].q.k # "num" THEN FNaN
                        ELSE FNum(SumScores(all, nw, Len(ScoreKeys)))]

(* The evaluations *)

\* the values a category score takes in the model
CategoryScores == {Zero, Half, One}

\* the nine category scores of one market
DashboardCalls ==
    [fn : {"dashboard"},
     scores : [bad_debt_score : CategoryScores, debt_ceiling_score : CategoryScores,
               aggregate_cr_score : CategoryScores,
               aggregate_collateral_under_sl_score : CategoryScores,
               aggregate_vol_ratio_score : CategoryScores,
               aggregate_prob_drop_score : CategoryScores,
               aggregate_borrower_distribution_score : CategoryScores,
               sl_responsiveness_score : CategoryScores,
               sl_profitability_score : CategoryScores],
     weights : {<< >>}]

\* lines 665-671: slider positions, 0.5 being the default
SliderScores == {<<1, 5>>, <<4, 5>>, One}
DefaultScore == Half

\* lines 674-681: weights typed in (integers of 0..100)
WeightInputs == {0, 25, 50}

\* the playground after the user has set up to two metrics (score and weight) and
\* has either left the other weights alone or set them all to 0
PlaygroundCalls ==
    {[fn |-> "playground",
      scores |-> [m \in Metrics |->
                    IF m = a THEN sa ELSE IF m = b THEN sb ELSE DefaultScore],
      weights |-> [k \in {ScoreKeys[i] : i \in 1..Len(ScoreKeys)} |->
                    IF k = a THEN wa ELSE IF k = b THEN wb
                    ELSE IF others_zero THEN 0 ELSE DefaultWeight(k)]] :
        a \in Metrics, b \in Metrics, sa \in SliderScores, sb \in SliderScores,
        wa \in WeightInputs, wb \in WeightInputs, others_zero \in BOOLEAN}

NoAggRet == [kind |-> "none"]

\* lines 480-553: the dashboard computes the interdependency and ultimate scores
UltimateScore ==
    /\ agg_call.fn = "dashboard"
    /\ agg_ret.kind = "none"
    /\ agg_ret' = [kind |-> "return", exc |-> "none",
                   momentum |-> interdependency_score_price_momentum(agg_call.scores),
                   volatility |-> interdependency_score_volatility(agg_call.scores),
                   score |-> FNum(ultimate_score(agg_call.scores))]
    /\ UNCHANGED <<sessionVars, scoringVars, volatilityVars, snapshotVars, agg_call, ohlcVars,
                   priceVars>>

\* lines 684-744: the playground computes them from the inputs
FinalScore ==
    /\ agg_call.fn = "playground"
    /\ agg_ret.kind = "none"
    /\ agg_ret' = final_score(agg_call.scores, agg_call.weights)
    /\ UNCHANGED <<sessionVars, scoringVars, volatilityVars, snapshotVars, agg_call, ohlcVars,
                   priceVars>>

InitAggregation ==
    /\ IdleScoring
    /\ IdleVolatility
    /\ IdleSnapshots
    /\ agg_call \in DashboardCalls \cup PlaygroundCalls
    /\ agg_ret = NoAggRet
    /\ IdleOhlc
    /\ IdlePrices
    /\ IdleSession

NextAggregation == UltimateScore \/ FinalScore

SpecAggregation == InitAggregation /\ [][NextAggregation]_vars

-----------------------------------------------------------------------------
(* src/src/query_and_manipulation.py: defillama_price, create_daily_ohlc and *)
(* get_ohlc                                                                  *)
(*                                                                          *)
(* Unix timestamps are seconds counted from the midnight of day 0.  A pandas *)
(* datetime is a record [date, secs]: the day and the seconds since its      *)
(* midnight.  The persisted CSV of a market holds one row per date.  The     *)
(* clocks of the host and of the price service run together, in UTC.         *)

\* seconds of the period "1h" of a request (line 167), and of a calendar day
Hour == 3600
Day == 86400

\* line 161: the loop stops once the last timestamp is within 4000 s of now
NowSlack == 4000

\* points asked per page; the source asks 500 (line 166), the model fewer so that
\* a window of a few days takes several pages
Span == 30

\* days of the lookback window; the source looks back 180 days (line 15)
LookbackDays == 2

\* the day the process is started on
StartDay == 3

\* the clock is followed for this many days after the start
MaxDays == 4

\* line 188: pd.to_datetime(ts, unit='s')
ToDatetime(ts) == [date |-> ts \div Day, secs |-> ts % Day]

\* line 260: int(Timestamp.timestamp())
ToTimestamp(dt) == dt.date * Day + dt.secs

\* datetime comparison
DtLt(a, b) == a.date < b.date \/ (a.date = b.date /\ a.secs < b.secs)

(* The price service *)

NoGap == 0 - 1

\* the service has no record at all for the token: a market that is brand new
NoRecords == 0 - 2

\* the price the service has on record for a time
PriceAt(ts) == 100 + (((ts \div 1800) * 7) % 13)

\* the service has a record for every time asked, but for those of the gap day;
\* for a token it does not know it has none
HasPrice(ts, gap) == gap # NoRecords /\ ts \div Day # gap

\* the reply to one request: the records at start, start + 1h, ... (span of them at
\* most), none later than the service's clock and none it has no record for
Page(start, now_ts, gap) ==
    SelectSeq([i \in 1..Span |->
                  [timestamp |-> start + (i - 1) * Hour,
                   price |-> PriceAt(start + (i - 1) * Hour)]],
              LAMBDA p : p.timestamp <= now_ts /\ HasPrice(p.timestamp, gap))

\* what the service sends back for one request: the page, or (upstream =
\* "lagging") only the record at the start asked, the newest it has by then
Reply(upstream, start, now_ts, gap) ==
    LET page == Page(start, now_ts, gap)
    IN  IF upstream = "lagging" /\ page # << >> THEN SubSeq(page, 1, 1) ELSE page

(* defillama_price *)

\* variant with a slip: the next page is asked from one period after the last
\* timestamp seen
NextRoundTs_Skip(price_data) == price_data[Len(price_data)].timestamp + Hour

\* line 176
NextRoundTs(price_data) == price_data[Len(price_data)].timestamp

\* line 161
LoopContinues(last_round_ts, current_timestamp) ==
    last_round_ts + NowSlack < current_timestamp

RECURSIVE PageLoop(_, _, _, _, _, _)
\* lines 161-182: the pages joined, and the start of every request made; a reply
\* without the prices (upstream = "error") raises at line 173, an empty page at
\* line 176; a page that does not move the last timestamp on leaves the loop
\* running for ever
PageLoop(last_round_ts, current_timestamp, gap, upstream, price_data_join, starts) ==
    IF ~LoopContinues(last_round_ts, current_timestamp)
    THEN [kind |-> "return", exc |-> "none", df |-> price_data_join,
          requests |-> starts]
    ELSE IF upstream = "error"
    THEN [kind |-> "raise", exc |-> "KeyError", df |-> << >>,
          requests |-> Append(starts, last_round_ts)]
    ELSE LET price_data == Reply(upstream, last_round_ts, current_timestamp, gap)
         IN  IF price_data = << >>
             THEN [kind |-> "raise", exc |-> "IndexError", df |-> << >>,
                   requests |-> Append(starts, last_round_ts)]
             ELSE IF NextRoundTs(price_data) <= last_round_ts
             THEN [kind |-> "hang", exc |-> "none", df |-> << >>,
                   requests |-> Append(starts, last_round_ts)]
             ELSE PageLoop(NextRoundTs(price_data), current_timestamp, gap,
                           upstream, price_data_join \o price_data,
                           Append(starts, last_round_ts))

\* line 191: drop_duplicates(subset='timestamp') keeps the first row of each
\* timestamp
DropDuplicates(df) ==
    SelectSeq([i \in 1..Len(df) |->
                  [row |-> df[i],
                   first |-> \A j \in 1..(i - 1) : df[j].timestamp # df[i].timestamp]],
              LAMBDA r : r.first)

\* the rows of a frame as a sequence
Rows(df) == SelectSeq(df, LAMBDA r : TRUE)

\* the place of every row in the frame sorted by timestamp: one more than the
\* number of rows that go before it (the earlier ones and, the sort being stable,
\* the equal ones that stand before it)
SortedPlaces(df) ==
    Rows([i \in 1..Len(df) |->
            1 + Cardinality({j \in 1..Len(df) :
                               \/ DtLt(df[j].timestamp, df[i].timestamp)
                               \/ df[j].timestamp = df[i].timestamp /\ j < i})])

\* lines 194 and 273: sort_values('timestamp'), sort_index()
SortValues(df) ==
    LET place == SortedPlaces(df)
    IN  Rows([p \in 1..Len(df) |-> df[CHOOSE i \in 1..Len(df) : place[i] = p]])

\* lines 184-196: the frame made of the joined pages
PriceFrame(price_data_join) ==
    LET converted == [i \in 1..Len(price_data_join) |->
                        [timestamp |-> ToDatetime(price_data_join[i].timestamp),
                         price |-> price_data_join[i].price]]
        unique == DropDuplicates(Rows(converted))
    IN  SortValues(Rows([i \in 1..Len(unique) |-> unique[i].row]))

\* lines 155-196, one call with the function's cache missed
defillama_price(query_time_from, current_timestamp, gap, upstream) ==
    LET looped == PageLoop(query_time_from, current_timestamp, gap, upstream,
                           << >>, << >>)
    IN  IF looped.kind # "return" THEN looped
        ELSE IF looped.df = << >>
             \* a frame without rows has no 'timestamp' column (line 188)
             THEN [looped EXCEPT !.kind = "raise", !.exc = "KeyError"]
        ELSE [looped EXCEPT !.df = PriceFrame(looped.df)]

\* line 138: lru_cache answers a call made before with the frame it then returned
CachedDefillamaPrice(memo, query_time_from, current_timestamp, gap, upstream) ==
    IF query_time_from \in DOMAIN memo
    THEN [kind |-> "return", exc |-> "none", df |-> memo[query_time_from],
          requests |-> << >>]
    ELSE defillama_price(query_time_from, current_timestamp, gap, upstream)

\* line 138: the cache after a call; a call that raised is not kept
MemoAfter(memo, query_time_from, outcome) ==
    IF outcome.kind = "return" /\ query_time_from \notin DOMAIN memo
    THEN [k \in DOMAIN memo \cup {query_time_from} |->
            IF k = query_time_from THEN outcome.df ELSE memo[k]]
    ELSE memo

(* create_daily_ohlc *)

\* the largest and the smallest of a non-empty set of prices
MaxOf(prices) == CHOOSE p \in prices : \A q \in prices : q <= p
MinOf(prices) == CHOOSE p \in prices : \A q \in prices : p <= q

\* lines 217-222: the bar of one day from the rows of the frame, in frame order;
\* resample('D') gives a day without rows a bar of NaN
DailyBar(df, date) ==
    LET idx == {i \in 1..Len(df) : df[i].timestamp.date = date}
        prices == {df[i].price : i \in idx}
    IN  IF idx = {}
        THEN [timestamp |-> [date |-> date, secs |-> 0],
              open |-> FNaN, high |-> FNaN, low |-> FNaN, close |-> FNaN]
        ELSE [timestamp |-> [date |-> date, secs |-> 0],
              open |-> FNum(<<df[MinOf(idx)].price, 1>>),
              high |-> FNum(<<MaxOf(prices), 1>>),
              low |-> FNum(<<MinOf(prices), 1>>),
              close |-> FNum(<<df[MaxOf(idx)].price, 1>>)]

\* lines 198-224: one bar for every day from the first row's to the last row's
create_daily_ohlc(df) ==
    LET dates == {df[i].timestamp.date : i \in 1..Len(df)}
        first_date == MinOf(dates)
        last_date == MaxOf(dates)
    IN  Rows([i \in 1..(last_date - first_date + 1) |->
                DailyBar(df, first_date + i - 1)])

(* get_ohlc *)

\* lines 276 and 287, 250-252: a frame written by to_csv and read back; the index
\* of midnights is written as dates
ToCsv(df) ==
    [exists |-> TRUE,
     rows |-> [i \in 1..Len(df) |->
                 [timestamp |-> df[i].timestamp.date, open |-> df[i].open,
                  high |-> df[i].high, low |-> df[i].low, close |-> df[i].close]]]

ReadCsv(file) ==
    [i \in 1..Len(file.rows) |->
        [timestamp |-> [date |-> file.rows[i].timestamp, secs |-> 0],
         open |-> file.rows[i].open, high |-> file.rows[i].high,
         low |-> file.rows[i].low, close |-> file.rows[i].close]]

NoFile == [exists |-> FALSE, rows |-> << >>]

\* variant with a slip: a series is stale once its last date is a day old
IsStale_OneDay(current_date, last_date) ==
    (ToTimestamp(current_date) - ToTimestamp(last_date)) \div Day > 0

\* line 258: (current_date - last_date).days > 1
IsStale(current_date, last_date) ==
    (ToTimestamp(current_date) - ToTimestamp(last_date)) \div Day > 1

\* variant with a slip: of two bars of one date the first, the cached one, is kept
KeepOnDuplicate_First(df, i) ==
    \A j \in 1..(i - 1) : df[j].timestamp # df[i].timestamp

\* line 272: ~index.duplicated(keep='last'), the row i of df is kept when no later
\* row has its date
KeepOnDuplicate(df, i) ==
    \A j \in (i + 1)..Len(df) : df[j].timestamp # df[i].timestamp

\* lines 271-273: concat, drop the duplicated dates, sort_index
Combine(df_existing, df_new_ohlc) ==
    LET df_combined == df_existing \o df_new_ohlc
        kept == SelectSeq([i \in 1..Len(df_combined) |->
                              [row |-> df_combined[i],
                               keep |-> KeepOnDuplicate(df_combined, i)]],
                          LAMBDA r : r.keep)
    IN  SortValues(Rows([i \in 1..Len(kept) |-> kept[i].row]))

\* line 256: index.max()
IndexMax(df) ==
    CHOOSE t \in {df[i].timestamp : i \in 1..Len(df)} :
        \A i \in 1..Len(df) : ~DtLt(t, df[i].timestamp)

\* variant with a slip: the file is opened for writing before the prices are
\* fetched, and is left empty when the fetch raises
FileOnRaise_Truncated(file) == [exists |-> TRUE, rows |-> << >>]

\* lines 263, 272-276 and 283-287: to_csv comes after defillama_price and
\* create_daily_ohlc, so a call that raises in them has written nothing
FileOnRaise(file) == file

\* lines 228-288: the outcome of one call: what is returned or raised, the file
\* after it, the requests made and the cache of defillama_price after it
get_ohlc(file, memo, since, now_ts, gap, upstream) ==
    IF file.exists
    THEN LET df_existing == ReadCsv(file)
             current_date == ToDatetime(now_ts)
             last_date == IndexMax(df_existing)
         IN  IF IsStale(current_date, last_date)
             THEN LET query_time_from == ToTimestamp(last_date)
                      fetched == CachedDefillamaPrice(memo, query_time_from, now_ts,
                                                      gap, upstream)
                      df_new == SelectSeq(fetched.df,
                                          LAMBDA r : DtLt(last_date, r.timestamp))
                  IN  IF fetched.kind # "return"
                      THEN [kind |-> fetched.kind, exc |-> fetched.exc, df |-> << >>,
                            file |-> FileOnRaise(file),
                            requests |-> fetched.requests, memo |-> memo]
                      ELSE IF df_new # << >>
                      THEN LET df_combined ==
                                   Combine(df_existing, create_daily_ohlc(df_new))
                           IN  [kind |-> "return", exc |-> "none",
                                df |-> df_combined, file |-> ToCsv(df_combined),
                                requests |-> fetched.requests,
                                memo |-> MemoAfter(memo, query_time_from, fetched)]
                      ELSE [kind |-> "return", exc |-> "none", df |-> df_existing,
                            file |-> file, requests |-> fetched.requests,
                            memo |-> MemoAfter(memo, query_time_from, fetched)]
             ELSE [kind |-> "return", exc |-> "none", df |-> df_existing,
                   file |-> file, requests |-> << >>, memo |-> memo]
    ELSE LET fetched == CachedDefillamaPrice(memo, since, now_ts, gap, upstream)
         IN  IF fetched.kind # "return"
             THEN [kind |-> fetched.kind, exc |-> fetched.exc, df |-> << >>,
                   file |-> FileOnRaise(file), requests |-> fetched.requests,
                   memo |-> memo]
             ELSE LET df_ohlc == create_daily_ohlc(fetched.df)
                  IN  [kind |-> "return", exc |-> "none", df |-> df_ohlc,
                       file |-> ToCsv(df_ohlc), requests |-> fetched.requests,
                       memo |-> MemoAfter(memo, since, fetched)]

(* The bar store of one market over some days *)

\* the times of day the process is started at
StartTimes == {StartDay * Day + 10 * Hour, StartDay * Day + 10 * Hour + 1800}

\* the clock is looked at again after 12 hours, 14 hours or a day
ClockSteps == {12 * Hour, 14 * Hour, Day}

\* the service has every record, or none for the day before the start, or none
\* at all
GapDays == {NoGap, StartDay - 1, NoRecords}

NoOhlcRet == [kind |-> "none"]
NoMemo == << >>

\* time passes between two calls
Tick ==
    /\ \E step \in ClockSteps :
          /\ clock + step < (StartDay + MaxDays) * Day
          /\ clock' = clock + step
    /\ UNCHANGED <<sessionVars, scoringVars, volatilityVars, snapshotVars, aggregationVars,
                   six_months_ago, gap_day, csv, price_memo, requests, ohlc_ret,
                   priceVars>>

\* lines 228-288: one call of get_ohlc that returns or raises
GetOhlc ==
    \E upstream \in {"ok", "error"} :
        \E outcome \in {get_ohlc(csv, price_memo, six_months_ago, clock, gap_day,
                                 upstream)} :
            /\ outcome.kind # "hang"
            /\ csv' = outcome.file
            /\ price_memo' = outcome.memo
            /\ requests' = outcome.requests
            /\ ohlc_ret' = [kind |-> outcome.kind, exc |-> outcome.exc,
                            df |-> outcome.df]
            /\ UNCHANGED <<sessionVars, scoringVars, volatilityVars, snapshotVars,
                           aggregationVars, clock, six_months_ago, gap_day,
                           priceVars>>

InitOhlc ==
    /\ IdleScoring
    /\ IdleVolatility
    /\ IdleSnapshots
    /\ IdleAggregation
    /\ clock \in StartTimes
    \* lines 14-15, evaluated when the module is imported
    /\ six_months_ago = clock - LookbackDays * Day
    /\ gap_day \in GapDays
    /\ csv = NoFile
    /\ price_memo = NoMemo
    /\ requests = << >>
    /\ ohlc_ret = NoOhlcRet
    /\ IdlePrices
    /\ IdleSession

NextOhlc == Tick \/ GetOhlc

SpecOhlc == InitOhlc /\ [][NextOhlc]_vars

-----------------------------------------------------------------------------
(* src/src/query_and_manipulation.py: defillama_price, page by page          *)
(*                                                                          *)
(* One call of defillama_price (its cache missed) against the price service: *)
(* the frame of the call, a request per turn of the loop, the frame returned. *)
(* The clock may move on between two requests.                               *)

\* the loop is followed for this many requests at most
MaxPages == 5

\* the hours the clock may move on by while a call is running
MaxDelay == 2

\* the start times a call is made with: the default (line 139), the midnights
\* get_ohlc passes (line 260), and times close to now
QueryTimes(now_ts, since) ==
    {since, now_ts - Hour, now_ts - 2 * Hour, now_ts}
        \cup {d * Day : d \in (StartDay - LookbackDays)..StartDay}

NoPriceRet == [kind |-> "none"]

\* lines 155-159: the frame of the call
DefillamaPriceEnter ==
    /\ price_pc = "call"
    /\ call_current_timestamp' = clock
    /\ call_last_round_ts' = call_query_time_from
    /\ call_price_data_join' = << >>
    /\ call_elapsed_ms' = 0
    /\ price_pc' = "loop"
    /\ UNCHANGED <<sessionVars, scoringVars, volatilityVars, snapshotVars, aggregationVars,
                   ohlcVars, call_query_time_from, request_at, price_ret>>

\* variant with a slip: the pause of line 182 left out
SleepFor_NoDelay(elapsed) == elapsed

\* line 182: time.sleep(0.5)
SleepFor(elapsed) == elapsed + 500

\* lines 161-179: one turn of the loop up to its pause, a request and its reply
RequestPage ==
    /\ price_pc = "loop"
    /\ LoopContinues(call_last_round_ts, call_current_timestamp)
    /\ Len(requests) < MaxPages
    /\ requests' = Append(requests, call_last_round_ts)
    /\ request_at' = Append(request_at, call_elapsed_ms)
    /\ \E upstream \in {"ok", "error", "lagging"} :
          \E price_data \in {Reply(upstream, call_last_round_ts, clock, gap_day)} :
              IF upstream = "error"
              THEN /\ price_ret' = [kind |-> "raise", exc |-> "KeyError",
                                    df |-> << >>]
                   /\ price_pc' = "done"
                   /\ UNCHANGED <<call_last_round_ts, call_price_data_join>>
              ELSE IF price_data = << >>
              THEN /\ price_ret' = [kind |-> "raise", exc |-> "IndexError",
                                    df |-> << >>]
                   /\ price_pc' = "done"
                   /\ UNCHANGED <<call_last_round_ts, call_price_data_join>>
              ELSE /\ call_last_round_ts' = NextRoundTs(price_data)
                   /\ call_price_data_join' = call_price_data_join \o price_data
                   /\ price_pc' = "sleep"
                   /\ UNCHANGED price_ret
    /\ UNCHANGED <<sessionVars, scoringVars, volatilityVars, snapshotVars, aggregationVars,
                   clock, six_months_ago, gap_day, csv, price_memo, ohlc_ret,
                   call_query_time_from, call_current_timestamp, call_elapsed_ms>>

\* line 182: the pause that ends a turn of the loop
Sleep ==
    /\ price_pc = "sleep"
    /\ call_elapsed_ms' = SleepFor(call_elapsed_ms)
    /\ price_pc' = "loop"
    /\ UNCHANGED <<sessionVars, scoringVars, volatilityVars, snapshotVars, aggregationVars,
                   ohlcVars, call_query_time_from, call_current_timestamp,
                   call_last_round_ts, call_price_data_join, request_at, price_ret>>

\* line 170: a request takes time, and may take long; the clock, and the
\* service's with it, moves on while the call is in its loop
TimePasses ==
    /\ price_pc = "loop"
    /\ clock + Hour <= call_current_timestamp + MaxDelay * Hour
    /\ clock' = clock + Hour
    /\ call_elapsed_ms' = call_elapsed_ms + Hour * 1000
    /\ UNCHANGED <<sessionVars, scoringVars, volatilityVars, snapshotVars, aggregationVars,
                   six_months_ago, gap_day, csv, price_memo, requests, ohlc_ret,
                   price_pc, call_query_time_from, call_current_timestamp,
                   call_last_round_ts, call_price_data_join, request_at, price_ret>>

\* lines 184-196: the loop is over, the frame is made and returned
ReturnFrame ==
    /\ price_pc = "loop"
    /\ ~LoopContinues(call_last_round_ts, call_current_timestamp)
    /\ price_ret' = IF call_price_data_join = << >>
                    \* a frame without rows has no 'timestamp' column (line 188)
                    THEN [kind |-> "raise", exc |-> "KeyError", df |-> << >>]
                    ELSE [kind |-> "return", exc |-> "none",
                          df |-> PriceFrame(call_price_data_join)]
    /\ price_pc' = "done"
    /\ UNCHANGED <<sessionVars, scoringVars, volatilityVars, snapshotVars, aggregationVars,
                   ohlcVars, call_query_time_from, call_current_timestamp,
                   call_last_round_ts, call_price_data_join, call_elapsed_ms,
                   request_at>>

InitPrices ==
    /\ IdleScoring
    /\ IdleVolatility
    /\ IdleSnapshots
    /\ IdleAggregation
    /\ clock \in StartTimes
    /\ six_months_ago = clock - LookbackDays * Day
    /\ gap_day \in GapDays
    /\ csv = NoFile
    /\ price_memo = NoMemo
    /\ requests = << >>
    /\ ohlc_ret = NoOhlcRet
    /\ price_pc = "call"
    /\ call_query_time_from \in QueryTimes(clock, six_months_ago)
    /\ call_current_timestamp = 0
    /\ call_last_round_ts = 0
    /\ call_price_data_join = << >>
    /\ call_elapsed_ms = 0
    /\ request_at = << >>
    /\ price_ret = NoPriceRet
    /\ IdleSession

NextPrices ==
    DefillamaPriceEnter \/ RequestPage \/ Sleep \/ TimePasses \/ ReturnFrame

SpecPrices == InitPrices /\ [][NextPrices]_vars

-----------------------------------------------------------------------------
(* src/main.py, lines 80-165: the evaluation of one market, request by       *)
(* request                                                                  *)
(*                                                                          *)
(* main() asks the services in a fixed order and computes each score as soon *)
(* as it has what the score is made of.  An exception that leaves one of the *)
(* fetching functions is caught nowhere: it ends main(), and the dashboard   *)
(* shows it.  A reply is a status and a body; the body is the payload asked  *)
(* for or something else.                                                    *)

EvalStatuses == {200, 429, 500}
EvalBodies == {"ok", "malformed"}
EvalReplies == [status : EvalStatuses, body : EvalBodies]

\* query_and_manipulation.py lines 42, 131 and 492: the functions that call
\* raise_for_status on the reply; get_active_markets (mint_market.py lines
\* 46-48) and defillama_price (lines 170-173) do not
ChecksStatus(fetcher) ==
    fetcher \in {"get_market_snapshots", "get_market_health",
                 "get_soft_liquidation_ratio"}

\* the exception a fetching function ends in on a reply ("none": it returns):
\* HTTPError from raise_for_status, KeyError (or a decoding error) from taking
\* the payload out of a body that does not hold it
FetchRaises(fetcher, reply) ==
    IF ChecksStatus(fetcher) /\ RaiseForStatus(reply.status) THEN "HTTPError"
    ELSE IF reply.body = "malformed" THEN "KeyError"
    ELSE "none"

\* a score and the steps of main() whose replies it is computed from
Score(name, from) == [name |-> name, from |-> from]

\* one request of main(): it is logged with its reply; when the fetching function
\* raises, main() ends with the exception, and when it returns, main() goes on to
\* next_pc with the scores computed at that point
EvalRequest(step, fetcher, reply, next_pc, scores) ==
    /\ eval_log' = Append(eval_log,
                          [step |-> step, fetcher |-> fetcher, reply |-> reply])
    /\ IF FetchRaises(fetcher, reply) # "none"
       THEN /\ eval_pc' = "error"
            /\ eval_error' = FetchRaises(fetcher, reply)
            /\ UNCHANGED eval_scores
       ELSE /\ eval_pc' = next_pc
            /\ eval_scores' = eval_scores \cup scores
            /\ UNCHANGED eval_error
    /\ UNCHANGED <<scoringVars, volatilityVars, snapshotVars, aggregationVars,
                   ohlcVars, priceVars, marketVars, parallelVars>>

\* a step of main() that makes no request
EvalStep(next_pc, scores) ==
    /\ eval_pc' = next_pc
    /\ eval_scores' = eval_scores \cup scores
    /\ UNCHANGED <<eval_log, eval_error, scoringVars, volatilityVars, snapshotVars,
                   aggregationVars, ohlcVars, priceVars, marketVars, parallelVars>>

\* line 81: market_obj.get_market_status("ethereum")
GetMarketStatus ==
    /\ eval_pc = "status"
    /\ \E reply \in EvalReplies :
          EvalRequest("status", "get_active_markets", reply, "health", {})

\* line 82: get_market_health(market_obj)
GetMarketHealth ==
    /\ eval_pc = "health"
    /\ \E reply \in EvalReplies :
          EvalRequest("health", "get_market_health", reply, "snapshots", {})

\* lines 97-112: get_latest_cr_ratio_row, then the collateral ratio score and the
\* bad debt score
GetCrComparison ==
    /\ eval_pc = "snapshots"
    /\ \E reply \in EvalReplies :
          EvalRequest("snapshots", "get_market_snapshots", reply, "prices",
                      {Score("aggregate_cr_score", {"snapshots"}),
                       Score("bad_debt_score", {"health", "status"})})

\* line 120, query_and_manipulation.py line 395: get_ohlc(market_obj); with a
\* fresh persisted series it makes no request
GetMarketOhlc ==
    /\ eval_pc = "prices"
    /\ \/ \E reply \in EvalReplies :
             EvalRequest("prices", "defillama_price", reply, "btc_prices", {})
       \/ EvalStep("btc_prices", {})

\* lines 120-147, query_and_manipulation.py line 396: get_ohlc(btc_market), then
\* the price drop score and the beta score, and calculate_volatility_ratio (line
\* 139), whose get_ohlc finds the series persisted a moment ago
GetBtcOhlc ==
    /\ eval_pc = "btc_prices"
    /\ LET scores == {Score("aggregate_prob_drop_score", {"prices"}),
                      Score("beta_score", {"prices", "btc_prices"}),
                      Score("aggregate_vol_ratio_score", {"prices", "btc_prices"})}
       IN  \/ \E reply \in EvalReplies :
                 EvalRequest("btc_prices", "defillama_price", reply,
                             "soft_liquidation", scores)
           \/ EvalStep("soft_liquidation", scores)

\* lines 152-165: get_under_sl_ratios and the soft liquidation score
GetUnderSlRatios ==
    /\ eval_pc = "soft_liquidation"
    /\ \E reply \in EvalReplies :
          EvalRequest("soft_liquidation", "get_soft_liquidation_ratio", reply,
                      "display",
                      {Score("aggregate_collateral_under_sl_score",
                             {"soft_liquidation"})})

\* lines 224 and 543: the debt ceiling score, and the ultimate score made of all
DisplayScores ==
    /\ eval_pc = "display"
    /\ EvalStep("done",
                {Score("debt_ceiling_score", {"status"}),
                 Score("ultimate_score",
                       {"status", "health", "snapshots", "prices", "btc_prices",
                        "soft_liquidation"})})

InitEvaluation ==
    /\ IdleScoring
    /\ IdleVolatility
    /\ IdleSnapshots
    /\ IdleAggregation
    /\ IdleOhlc
    /\ IdlePrices
    /\ eval_pc = "status"
    /\ eval_log = << >>
    /\ eval_scores = {}
    /\ eval_error = "none"
    /\ IdleMarkets
    /\ IdleParallel

NextEvaluation ==
    \/ GetMarketStatus
    \/ GetMarketHealth
    \/ GetCrComparison
    \/ GetMarketOhlc
    \/ GetBtcOhlc
    \/ GetUnderSlRatios
    \/ DisplayScores

SpecEvaluation == InitEvaluation /\ [][NextEvaluation]_vars

-----------------------------------------------------------------------------
(* src/src/models/mint_market.py: Market; and the two stores of price data   *)
(* in which a call finds its entry by a Market: the lru_cache of             *)
(* defillama_price and the CSV files of get_ohlc                             *)
(*                                                                          *)
(* An address is a sequence of characters.  A Market is given by its name    *)
(* and its controller address, the other fields play no part.  A price       *)
(* history is named by the request that fetched it: the controller of the    *)
(* market, the chain and the start asked.                                    *)

\* calls followed in one process
MaxCalls == 2

\* str.lower() of one character; the addresses are made of a, A, b and B
LowerChar(c) == IF c = "A" THEN "a" ELSE IF c = "B" THEN "b" ELSE c

\* lines 25 and 30: controller.lower()
Lower(s) == [i \in 1..Len(s) |-> LowerChar(s[i])]

\* hash() of a str: a number made from the string, which other strings may share
\* (here the count of its capitals plus twice the count of its letters b and B)
StrHash(s) ==
    Cardinality({i \in 1..Len(s) : s[i] \in {"A", "B"}})
        + 2 * Cardinality({i \in 1..Len(s) : s[i] \in {"b", "B"}})

\* variant with a slip: the hash taken of the address as written
MarketHash_Raw(self) == StrHash(self.controller)

\* lines 24-25: __hash__
MarketHash(self) == StrHash(Lower(self.controller))

\* variant with a slip: the equality a dataclass generates, field by field
MarketEq_AllFields(self, other) == self = other

\* lines 27-30: __eq__
MarketEq(self, other) == Lower(self.controller) = Lower(other.controller)

MarketNames == {"WETH", "WBTC"}
Addresses == {<<"a", "b">>, <<"A", "b">>, <<"a", "B">>, <<"b", "a">>}
Markets == [market : MarketNames, controller : Addresses]
Chains == {"ethereum", "arbitrum"}

\* the starts of a price history: 0 stands for six_months_ago, 1 for the last
\* date of a persisted series (query_and_manipulation.py lines 260 and 283)
Windows == {0, 1}

\* functools.lru_cache (query_and_manipulation.py line 138): the entries a call
\* selects, those whose key has the hash of the key of the call and is equal to it
\* argument by argument
LruFind(cache, market_obj, query_time_from, chain) ==
    {i \in 1..Len(cache) :
        /\ MarketHash(cache[i].market_obj) = MarketHash(market_obj)
        /\ MarketEq(cache[i].market_obj, market_obj)
        /\ cache[i].query_time_from = query_time_from
        /\ cache[i].chain = chain}

\* query_and_manipulation.py lines 138-196, behind lru_cache: the prices
\* returned, whether the cache had them, and the cache after the call
KeyedDefillamaPrice(cache, market_obj, query_time_from, chain) ==
    LET found == LruFind(cache, market_obj, query_time_from, chain)
        fetched == [controller |-> market_obj.controller, chain |-> chain,
                    window |-> query_time_from]
    IN  IF found # {}
        THEN [hit |-> TRUE, prices |-> cache[CHOOSE i \in found : TRUE].prices,
              cache |-> cache]
        ELSE [hit |-> FALSE, prices |-> fetched,
              cache |-> Append(cache,
                               [market_obj |-> market_obj,
                                query_time_from |-> query_time_from,
                                chain |-> chain, prices |-> fetched])]

\* query_and_manipulation.py line 246: f"src/data/{market_obj.market}_ohlc.csv"
CsvPath(market_obj) == market_obj.market

\* query_and_manipulation.py lines 246-288, get_ohlc(market_obj, chain) over the
\* files of src/data; tail is 0 when the persisted series is fresh, and the start
\* of the prices it asks for when it is stale.  The bars of a series are named by
\* the price histories they were made from.
KeyedGetOhlc(dir, cache, market_obj, chain, tail) ==
    LET path == CsvPath(market_obj)
        got == KeyedDefillamaPrice(cache, market_obj,
                                   IF dir[path].exists THEN tail ELSE 0, chain)
        bars == IF dir[path].exists THEN dir[path].bars \cup {got.prices}
                ELSE {got.prices}
    IN  IF dir[path].exists /\ tail = 0
        THEN [hit |-> FALSE, prices |-> dir[path].bars, dir |-> dir,
              cache |-> cache]
        ELSE [hit |-> got.hit, prices |-> bars,
              dir |-> [dir EXCEPT ![path] = [exists |-> TRUE, bars |-> bars]],
              cache |-> got.cache]

\* a call of defillama_price(market_obj, query_time_from, chain)
DefillamaPriceFor ==
    /\ mkt_calls < MaxCalls
    /\ \E market_obj \in Markets, query_time_from \in Windows, chain \in Chains :
          LET got == KeyedDefillamaPrice(lru, market_obj, query_time_from, chain)
          IN  /\ mkt_call' = [fn |-> "defillama_price", market_obj |-> market_obj,
                              query_time_from |-> query_time_from, chain |-> chain]
              /\ mkt_ret' = [hit |-> got.hit, prices |-> {got.prices}]
              /\ lru' = got.cache
    /\ mkt_calls' = mkt_calls + 1
    /\ UNCHANGED <<data_dir, scoringVars, volatilityVars, snapshotVars,
                   aggregationVars, ohlcVars, priceVars, evalVars, parallelVars>>

\* a call of get_ohlc(market_obj, chain)
GetOhlcFor ==
    /\ mkt_calls < MaxCalls
    /\ \E market_obj \in Markets, tail \in Windows, chain \in Chains :
          LET got == KeyedGetOhlc(data_dir, lru, market_obj, chain, tail)
          IN  /\ mkt_call' = [fn |-> "get_ohlc", market_obj |-> market_obj,
                              query_time_from |-> tail, chain |-> chain]
              /\ mkt_ret' = [hit |-> got.hit, prices |-> got.prices]
              /\ lru' = got.cache
              /\ data_dir' = got.dir
    /\ mkt_calls' = mkt_calls + 1
    /\ UNCHANGED <<scoringVars, volatilityVars, snapshotVars, aggregationVars,
                   ohlcVars, priceVars, evalVars, parallelVars>>

\* a process that has started: no file in src/data, nothing in the cache
InitMarkets ==
    /\ IdleScoring
    /\ IdleVolatility
    /\ IdleSnapshots
    /\ IdleAggregation
    /\ IdleOhlc
    /\ IdlePrices
    /\ IdleEvaluation
    /\ data_dir = [path \in MarketNames |-> [exists |-> FALSE, bars |-> {}]]
    /\ lru = << >>
    /\ mkt_call = [fn |-> "none"]
    /\ mkt_ret = [hit |-> FALSE, prices |-> {}]
    /\ mkt_calls = 0
    /\ IdleParallel

NextMarkets == DefillamaPriceFor \/ GetOhlcFor

SpecMarkets == InitMarkets /\ [][NextMarkets]_vars

-----------------------------------------------------------------------------
(* main.py run for two markets at once, as two sessions of the dashboard do: *)
(* the calls of get_ohlc of each run, over the one directory src/data        *)
(*                                                                          *)
(* A series is given by the day of its last bar.  A call of get_ohlc is      *)
(* three steps, between which the other run may take its own: it looks at    *)
(* the file, it fetches the prices, it saves the series.                     *)

\* the day the clock is followed to
MaxWall == 3

Workers == {1, 2}
EvaluatedMarkets == {"WETH", "wstETH"}
SeriesNames == EvaluatedMarkets \cup {"WBTC"}

\* the series one run asks for, in turn: main.py line 120 with
\* query_and_manipulation.py lines 395 and 396, then main.py line 139 with line 445
SeriesAsked(market) == <<market, "WBTC", market>>

\* query_and_manipulation.py lines 246-258 and 279: the file is looked for and
\* read; a fresh series is returned as it is
OpenSeries(w) ==
    /\ workers[w].pc = "open"
    /\ workers[w].at <= Len(SeriesAsked(workers[w].market))
    /\ LET path == SeriesAsked(workers[w].market)[workers[w].at]
       IN  /\ touched' = [touched EXCEPT ![path] = @ \cup {w}]
           /\ IF shared_dir[path].exists /\ ~(wall - shared_dir[path].as_of > 1)
              THEN workers' = [workers EXCEPT ![w].at = @ + 1]
              ELSE workers' = [workers EXCEPT ![w].pc = "fetch"]
    /\ UNCHANGED <<shared_dir, wall, scoringVars, volatilityVars, snapshotVars,
                   aggregationVars, ohlcVars, priceVars, evalVars, marketVars>>

\* lines 263-273 and 283-284: the prices up to now are fetched and the series of
\* this call is made of them (and of the bars read, when there were any)
FetchPrices(w) ==
    /\ workers[w].pc = "fetch"
    /\ workers' = [workers EXCEPT ![w].pc = "write", ![w].as_of = wall]
    /\ UNCHANGED <<shared_dir, wall, touched, scoringVars, volatilityVars,
                   snapshotVars, aggregationVars, ohlcVars, priceVars, evalVars,
                   marketVars>>

\* lines 276-277 and 287-288: to_csv(csv_path) puts the series of this call in
\* the place of whatever the file holds
WriteSeries(w) ==
    /\ workers[w].pc = "write"
    /\ LET path == SeriesAsked(workers[w].market)[workers[w].at]
       IN  /\ shared_dir' = [shared_dir EXCEPT
                                ![path] = [exists |-> TRUE, as_of |-> workers[w].as_of]]
           /\ touched' = [touched EXCEPT ![path] = @ \cup {w}]
    /\ workers' = [workers EXCEPT ![w].pc = "open", ![w].at = @ + 1]
    /\ UNCHANGED <<wall, scoringVars, volatilityVars, snapshotVars, aggregationVars,
                   ohlcVars, priceVars, evalVars, marketVars>>

\* a day goes by (pd.Timestamp.now(), line 255)
WallTick ==
    /\ wall < MaxWall
    /\ wall' = wall + 1
    /\ UNCHANGED <<shared_dir, workers, touched, scoringVars, volatilityVars,
                   snapshotVars, aggregationVars, ohlcVars, priceVars, evalVars,
                   marketVars>>

\* two runs start on day 2, for two distinct markets; each file of src/data is
\* missing, or holds a series that ends on day 0 or on day 1
InitParallel ==
    /\ IdleScoring
    /\ IdleVolatility
    /\ IdleSnapshots
    /\ IdleAggregation
    /\ IdleOhlc
    /\ IdlePrices
    /\ IdleEvaluation
    /\ IdleMarkets
    /\ shared_dir \in [SeriesNames -> {[exists |-> FALSE, as_of |-> 0],
                                       [exists |-> TRUE, as_of |-> 0],
                                       [exists |-> TRUE, as_of |-> 1]}]
    /\ \E first \in EvaluatedMarkets, second \in EvaluatedMarkets :
          /\ first # second
          /\ workers = [w \in Workers |->
                          [market |-> IF w = 1 THEN first ELSE second,
                           at |-> 1, pc |-> "open", as_of |-> 0]]
    /\ wall = 2
    /\ touched = [path \in SeriesNames |-> {}]

NextParallel ==
    \/ \E w \in Workers : OpenSeries(w)
    \/ \E w \in Workers : FetchPrices(w)
    \/ \E w \in Workers : WriteSeries(w)
    \/ WallTick

SpecParallel == InitParallel /\ [][NextParallel]_vars

-----------------------------------------------------------------------------
(* Properties of score_with_limits *)

LimitCallDone == call.fn = "score_with_limits" /\ ret.kind # "none"

\* the midpoint the contract speaks of: the given mid, else (upper + lower) / 2
ContractMid ==
    IF call.mid_limit = << >>
    THEN <<call.upper_limit[1] + call.lower_limit[1], 2>>
    ELSE call.mid_limit[1]

\* lower < mid < upper
LimitsOrdered ==
    /\ RLt(call.lower_limit, ContractMid)
    /\ RLt(ContractMid, call.upper_limit)

\* the score the call's limits give to another value w
ScoreOf(w) ==
    score_with_limits(w, call.upper_limit, call.lower_limit, call.direction,
                      call.mid_limit)

\* C1: for every value and every lower < mid < upper the score lies in [0,1];
\* higher-is-better gives exactly 1 at or above upper and exactly 0 at or below
\* lower, lower-is-better gives exactly 0 at or above upper and 1 at or below lower.
C1_ScoreWithinUnitInterval ==
    (LimitCallDone /\ LimitsOrdered) =>
        /\ ret.kind = "return"
        /\ RLe(Zero, ret.val) /\ RLe(ret.val, One)
        /\ RGe(call.score_this, call.upper_limit) =>
              ret.val = (IF call.direction THEN One ELSE Zero)
        /\ RLe(call.score_this, call.lower_limit) =>
              ret.val = (IF call.direction THEN Zero ELSE One)

\* a value strictly inside (mid, upper) has been scored
C1_Witness ==
    /\ LimitCallDone /\ LimitsOrdered
    /\ RLt(ContractMid, call.score_this) /\ RLt(call.score_this, call.upper_limit)
    /\ ret.kind = "return" /\ RLt(Half, ret.val) /\ RLt(ret.val, One)

\* C2: with lower < mid < upper (mid given or defaulted to (upper+lower)/2) the
\* score at lower, mid, upper is exactly 0, 0.5, 1 when higher is better and
\* exactly 1, 0.5, 0 when lower is better.
C2_ExactAtLimits ==
    (LimitCallDone /\ LimitsOrdered) =>
        /\ call.score_this = call.lower_limit =>
              ret = Returned(IF call.direction THEN Zero ELSE One)
        /\ call.score_this = ContractMid => ret = Returned(Half)
        /\ call.score_this = call.upper_limit =>
              ret = Returned(IF call.direction THEN One ELSE Zero)

\* the defaulted midpoint, not a limit itself, has been scored 0.5
C2_Witness ==
    /\ LimitCallDone /\ LimitsOrdered
    /\ call.mid_limit = << >>
    /\ call.lower_limit # Zero
    /\ call.score_this = ContractMid
    /\ ret = Returned(Half)

\* the steeper of the two slopes of the piecewise-linear score
MaxSlope ==
    LET a == RQuot(Half, RSub(ContractMid, call.lower_limit))
        b == RQuot(Half, RSub(call.upper_limit, ContractMid))
    IN  IF RLe(a, b) THEN b ELSE a

RAbs(x) == <<Abs(x[1]), x[2]>>

\* C3: with lower < mid < upper the score is monotonic in the value over the whole
\* input range (non-decreasing when higher is better, non-increasing otherwise) and
\* has no jump: it never changes faster than the steeper slope, the two linear
\* pieces agree at mid, and they meet the clamped values at lower and at upper.
C3_MonotonicNoJump ==
    (LimitCallDone /\ LimitsOrdered) =>
        /\ ret.kind = "return"
        /\ \A w \in ScoreValues :
              /\ ScoreOf(w).kind = "return"
              /\ RLe(call.score_this, w) =>
                    IF call.direction THEN RLe(ret.val, ScoreOf(w).val)
                                      ELSE RLe(ScoreOf(w).val, ret.val)
              /\ RLe(RAbs(RSub(ScoreOf(w).val, ret.val)),
                     RMul(MaxSlope, RAbs(RSub(w, call.score_this))))
        /\ ScoreLowerToMid(ContractMid, call.lower_limit, ContractMid, call.direction)
             = ScoreMidToUpper(ContractMid, call.upper_limit, ContractMid, call.direction)
        /\ ScoreLowerToMid(call.lower_limit, call.lower_limit, ContractMid, call.direction)
             = ScoreOf(call.lower_limit)
        /\ ScoreMidToUpper(call.upper_limit, call.upper_limit, ContractMid, call.direction)
             = ScoreOf(call.upper_limit)

\* a lower-is-better score strictly inside (lower, mid), with an asymmetric mid
C3_Witness ==
    /\ LimitCallDone /\ LimitsOrdered
    /\ ~call.direction
    /\ call.mid_limit # << >>
    /\ RSub(ContractMid, call.lower_limit) # RSub(call.upper_limit, ContractMid)
    /\ RLt(call.lower_limit, call.score_this) /\ RLt(call.score_this, ContractMid)
    /\ ret.kind = "return" /\ RLt(Half, ret.val) /\ RLt(ret.val, One)

-----------------------------------------------------------------------------
(* Properties of score_bad_debt *)

BadDebtCallDone == call.fn = "score_bad_debt" /\ ret.kind # "none"

\* bad debt and total debt of the call as integers (both are whole numbers)
BadDebtOf == call.bad_debt[1]
TotalDebtOf == call.current_debt[1]

\* C4: for D > 0: b = 0 scores 1.0; 0 < b < 0.1% of D scores within [0.5, 1.0];
\* 0.1% of D <= b < 1% of D scores within [0, 0.5], b = 0.005 * D strictly between
\* 0 and 0.5; b >= 1% of D scores 0.0.
C4_BadDebtBands ==
    (BadDebtCallDone /\ TotalDebtOf > 0) =>
        /\ ret.kind = "return"
        /\ BadDebtOf = 0 => ret.val = One
        /\ (0 < BadDebtOf /\ 1000 * BadDebtOf < TotalDebtOf) =>
              RLe(Half, ret.val) /\ RLe(ret.val, One)
        /\ (1000 * BadDebtOf >= TotalDebtOf /\ 100 * BadDebtOf < TotalDebtOf) =>
              RLe(Zero, ret.val) /\ RLe(ret.val, Half)
        /\ 200 * BadDebtOf = TotalDebtOf =>
              RLt(Zero, ret.val) /\ RLt(ret.val, Half)
        /\ 100 * BadDebtOf >= TotalDebtOf => ret.val = Zero

\* bad debt of 0.5% of the total debt has been scored
C4_Witness ==
    /\ BadDebtCallDone /\ TotalDebtOf > 0
    /\ 200 * BadDebtOf = TotalDebtOf
    /\ ret.kind = "return" /\ RLt(Zero, ret.val) /\ RLt(ret.val, Half)

-----------------------------------------------------------------------------
(* Properties of score_debt_ceiling *)

DebtCeilingCallDone == call.fn = "score_debt_ceiling" /\ ret.kind # "none"

RecommendedOf == call.recommended_debt_ceiling[1]
CeilingOf == call.current_debt_ceiling[1]
DebtOf == call.current_debt[1]

\* C5: for all non-negative R, C, D the call returns without error: 1.0 when
\* C <= R; otherwise, when D <= R, the value 1 - D/(2R) of [0.5, 1.0], linear from
\* 1.0 at D = 0 to 0.5 at D = R; otherwise 0.0.
C5_DebtCeilingTotal ==
    DebtCeilingCallDone =>
        /\ ret.kind = "return"
        /\ CeilingOf <= RecommendedOf => ret.val = One
        /\ (CeilingOf > RecommendedOf /\ DebtOf <= RecommendedOf) =>
              /\ RLe(Half, ret.val) /\ RLe(ret.val, One)
              /\ 2 * RecommendedOf * ret.val[1]
                   = (2 * RecommendedOf - DebtOf) * ret.val[2]
        /\ (CeilingOf > RecommendedOf /\ DebtOf > RecommendedOf) => ret.val = Zero

\* C6 as stated: the score is 0.0 whenever D > R, for every C (also C <= R).
C6_ZeroWheneverDebtAboveRecommended ==
    (DebtCeilingCallDone /\ DebtOf > RecommendedOf) => ret = Returned(Zero)

\* C6 as amended: when D > R the score is 0.0 if the current ceiling is above the
\* recommended one (C > R), and 1.0 if it is not (C <= R).
C6_ZeroWhenDebtAndCeilingAboveRecommended ==
    (DebtCeilingCallDone /\ DebtOf > RecommendedOf) =>
        /\ CeilingOf > RecommendedOf => ret = Returned(Zero)
        /\ CeilingOf <= RecommendedOf => ret = Returned(One)

\* a debt above the recommended ceiling, under a ceiling above it too, scored 0.0
C6_Witness ==
    /\ DebtCeilingCallDone
    /\ DebtOf > RecommendedOf /\ CeilingOf > RecommendedOf /\ CeilingOf >= DebtOf
    /\ ret = Returned(Zero)

-----------------------------------------------------------------------------
(* Properties of the volatility estimator *)

GkDone == vol_fn = "gk_volatility" /\ vol_ret.kind # "none"
RatioDone == vol_fn = "calculate_volatility_ratio" /\ vol_ret.kind # "none"

\* every bar of the series is the same bar with open = high = low = close
ConstantBars(df) ==
    \A i \in 1..Len(df) :
        /\ df[i] = df[1]
        /\ df[i].open = df[i].high /\ df[i].high = df[i].low /\ df[i].low = df[i].close

RECURSIVE SumSqHL(_, _, _)
\* the sum of (high - low)^2 in level units over rows from..to
SumSqHL(df, from, to) ==
    IF from > to THEN 0
    ELSE (df[to].high - df[to].low) * (df[to].high - df[to].low)
            + SumSqHL(df, from, to - 1)

RECURSIVE SumSqCO(_, _, _)
\* the sum of (close - open)^2 in level units over rows from..to
SumSqCO(df, from, to) ==
    IF from > to THEN 0
    ELSE (df[to].close - df[to].open) * (df[to].close - df[to].open)
            + SumSqCO(df, from, to - 1)

\* the whole-series mean of 0.5 * log_hl^2 - (2 ln 2 - 1) * log_co^2, fixed point
WholeSeriesVariance(df) ==
    ((FixedOne \div 2) * SumSqHL(df, 1, Len(df)) - GKCoef * SumSqCO(df, 1, Len(df)))
        \div Len(df)

\* C7: on 90 constant bars (open = high = low = close), and on any window of them,
\* gk_volatility is 0, not undefined.
C7_ConstantBarsHaveZeroVolatility ==
    (GkDone /\ ConstantBars(ohlc_df) /\ Len(ohlc_df) <= Window90) =>
        vol_ret = [kind |-> "return", val |-> Num(0)]

LastWindowVariance(df, w) ==
    IF Len(df) < w THEN NaN
    ELSE Num(((FixedOne * SumSqHL(df, Len(df) - w + 1, Len(df))) \div w) \div 2
             - (GKCoef * ((FixedOne * SumSqCO(df, Len(df) - w + 1, Len(df))) \div w))
                   \div FixedOne)

\* the volatility the contract gives the last w rows: a negative variance counts as 0
LastWindowVolatility(df, w) ==
    LET variance == LastWindowVariance(df, w)
    IN  IF variance.nan THEN NaN
        ELSE IF variance.v < 0 THEN Num(0)
        ELSE Num(ISqrt(variance.v * FixedOne))

-----------------------------------------------------------------------------
(* Properties of get_market_snapshots *)

SnapshotsDone == snap_ret.kind # "none"

\* the feed answered with a non-empty series whose every snapshot has
\* total_debt = 1,000,000 and total_collateral_usd = 1,500,000
ConstantSnapshots ==
    /\ response.status = 200
    /\ Len(response.data) >= 1
    /\ \A i \in 1..Len(response.data) :
          /\ response.data[i].total_debt = 1000000
          /\ response.data[i].total_collateral_usd = 1500000

\* C10: with total_debt constant at 1,000,000 and total_collateral_usd constant at
\* 1,500,000, cr_ratio is 1.5 on every row, cr_7d/30d is 1.0 on every row from the
\* 30th on, and undefined (NaN) on the rows before the 30th.
C10_ConstantSnapshotsRatios ==
    (SnapshotsDone /\ ConstantSnapshots) =>
        /\ snap_ret.kind = "return"
        /\ Len(snap_ret.df) = Len(response.data)
        /\ \A i \in 1..Len(snap_ret.df) :
              /\ snap_ret.df[i].cr_ratio = FNum(<<3, 2>>)
              /\ i >= 30 => snap_ret.df[i].cr_7d_30d = FNum(One)
              /\ i < 30 => snap_ret.df[i].cr_7d_30d = FNaN

\* a constant series of more than 30 snapshots has been evaluated
C10_Witness ==
    /\ SnapshotsDone /\ ConstantSnapshots
    /\ Len(response.data) > 30
    /\ snap_ret.kind = "return"
    /\ snap_ret.df[Len(snap_ret.df)].cr_7d_30d = FNum(One)
    /\ snap_ret.df[1].cr_7d_30d = FNaN

-----------------------------------------------------------------------------
(* Properties of get_latest_cr_ratio_row *)

LatestRowDone == latest_row.kind # "none"

\* the feed answered without error and with no snapshot at all
EmptyFeed == response.status = 200 /\ response.data = << >>

\* C11: when the snapshot feed returns an empty series, get_latest_cr_ratio_row
\* returns the row of zeros (cr_ratio, cr_ratio_7d, cr_ratio_30d and cr_7d/30d all
\* 0.0) and does not fail.
C11_EmptyFeedGivesZeroRow ==
    (LatestRowDone /\ EmptyFeed) =>
        /\ latest_row.kind = "return"
        /\ latest_row.row = ZeroRow

-----------------------------------------------------------------------------
(* Properties of the aggregation *)

DashboardDone == agg_call.fn = "dashboard" /\ agg_ret.kind # "none"
PlaygroundDone == agg_call.fn = "playground" /\ agg_ret.kind # "none"

WeightKeys == DOMAIN agg_call.weights

RECURSIVE TotalOver(_, _)
\* the sum of the weights w over the set of keys
TotalOver(w, keys) ==
    IF keys = {} THEN 0
    ELSE LET k == CHOOSE k \in keys : TRUE IN w[k] + TotalOver(w, keys \ {k})

RECURSIVE ScoreTimesWeightOver(_, _, _)
\* the sum of score * weight over the set of keys
ScoreTimesWeightOver(s, w, keys) ==
    IF keys = {} THEN Zero
    ELSE LET k == CHOOSE k \in keys : TRUE
         IN  RAdd(RMul(s[k], <<w[k], 1>>), ScoreTimesWeightOver(s, w, keys \ {k}))

RECURSIVE NormalizedTotal(_, _)
\* the sum of the normalized weights nw over the set of keys
NormalizedTotal(nw, keys) ==
    IF keys = {} THEN Zero
    ELSE LET k == CHOOSE k \in keys : TRUE
         IN  RAdd(nw[k].q.v, NormalizedTotal(nw, keys \ {k}))

\* the eleven scores the playground aggregates: the sliders and the two
\* interdependency scores it shows
ShownScores ==
    [k \in WeightKeys |->
        IF k = "Momentum Interdependency" THEN agg_ret.momentum
        ELSE IF k = "Volatility Interdependency" THEN agg_ret.volatility
        ELSE agg_call.scores[k]]

\* the factors every weight is multiplied by
ScaleFactors == 2..4

\* the scenario: A scored 0.8 and B scored 0.2 carry the same weight w, the other
\* nine weights are 0
TwoMetricScenario(w) ==
    \E a \in Metrics, b \in Metrics :
        /\ a # b
        /\ agg_call.scores[a] = <<4, 5>> /\ agg_call.scores[b] = <<1, 5>>
        /\ agg_call.weights[a] = w /\ agg_call.weights[b] = w
        /\ \A k \in WeightKeys \ {a, b} : agg_call.weights[k] = 0

\* C12: in the playground, weights that do not sum to 100 are normalized to sum to
\* 100, so the composite is sum(score * weight) / sum(weight) and does not change
\* when every weight is multiplied by the same positive factor; A = (0.8, 50),
\* B = (0.2, 50) and A = (0.8, 25), B = (0.2, 25) both give 0.5.
C12_NormalizedComposite ==
    (PlaygroundDone /\ TotalOver(agg_call.weights, WeightKeys) > 0) =>
        LET total == TotalOver(agg_call.weights, WeightKeys)
            nw == normalized_weights(agg_call.weights)
        IN  /\ agg_ret.kind = "return"
            /\ agg_ret.score.k = "num"
            /\ \A k \in WeightKeys : nw[k].kind = "return" /\ nw[k].q.k = "num"
            /\ NormalizedTotal(nw, WeightKeys) = <<100, 1>>
            /\ RMul(agg_ret.score.v, <<total, 1>>)
                   = ScoreTimesWeightOver(ShownScores, agg_call.weights, WeightKeys)
            /\ \A f \in ScaleFactors :
                   (\A k \in WeightKeys : f * agg_call.weights[k] <= 100) =>
                       final_score(agg_call.scores,
                                   [k \in WeightKeys |-> f * agg_call.weights[k]]).score
                           = agg_ret.score
            /\ TwoMetricScenario(50) => agg_ret.score = FNum(Half)
            /\ TwoMetricScenario(25) => agg_ret.score = FNum(Half)

\* the scenario with weights 25 and 25 has been evaluated and gave 0.5
C12_Witness ==
    /\ PlaygroundDone
    /\ TwoMetricScenario(25)
    /\ agg_ret.kind = "return"
    /\ agg_ret.score = FNum(Half)

\* C13: in the playground, when every weight is 0 (total weight 0) the evaluation
\* ends in an error; no composite score comes out of a division by zero.
C13_ZeroTotalWeightRaises ==
    (PlaygroundDone /\ TotalOver(agg_call.weights, WeightKeys) = 0) =>
        /\ agg_ret.kind = "raise"
        /\ agg_ret.exc = "ZeroDivisionError"

\* the playground has been evaluated with all eleven weights at 0
C13_Witness ==
    /\ PlaygroundDone
    /\ \A k \in WeightKeys : agg_call.weights[k] = 0
    /\ agg_ret.kind = "raise"

\* the value of a score variable of the dashboard once it has been evaluated
DashboardValue(name) ==
    IF name = "interdependency_score_volatility" THEN agg_ret.volatility
    ELSE IF name = "interdependency_score_price_momentum" THEN agg_ret.momentum
    ELSE agg_call.scores[name]

RECURSIVE TableSum(_)
\* score * published weight summed over the first n rows of the breakdown table
TableSum(n) ==
    IF n = 0 THEN Zero
    ELSE RAdd(TableSum(n - 1),
              RMul(DashboardValue(components[n].score), <<components[n].weight, 1>>))

RECURSIVE TermWeights(_)
\* the weights of the first n terms of the sum added up
TermWeights(n) == IF n = 0 THEN 0 ELSE TermWeights(n - 1) + UltimateTerms[n].weight

\* C14: the ultimate score is a fixed-weight sum over the nine category scores and
\* the two interdependency scores; the weights sum to exactly 100; each weight used
\* in the sum is the weight the breakdown table publishes for that score; and the
\* ultimate score is within [0, 1] when every category score is.
C14_UltimateScoreWeights ==
    DashboardDone =>
        /\ Len(UltimateTerms) = 11
        /\ {UltimateTerms[i].score : i \in 1..Len(UltimateTerms)}
               = DOMAIN agg_call.scores \cup {"interdependency_score_volatility",
                                              "interdependency_score_price_momentum"}
        /\ TermWeights(Len(UltimateTerms)) = 100
        /\ Len(components) = Len(UltimateTerms)
        /\ \A i \in 1..Len(UltimateTerms) :
              \E j \in 1..Len(components) :
                  /\ components[j].score = UltimateTerms[i].score
                  /\ components[j].weight = UltimateTerms[i].weight
        /\ agg_ret.kind = "return"
        /\ agg_ret.score = FNum(RQuot(TableSum(Len(components)), <<100, 1>>))
        /\ (\A k \in DOMAIN agg_call.scores :
               RLe(Zero, agg_call.scores[k]) /\ RLe(agg_call.scores[k], One))
             => RLe(Zero, agg_ret.score.v) /\ RLe(agg_ret.score.v, One)

\* a market with every category score at 1 but bad debt at 1/2 has been evaluated:
\* its ultimate score is 1 - 13/200
C14_Witness ==
    /\ DashboardDone
    /\ agg_call.scores.bad_debt_score = Half
    /\ \A k \in DOMAIN agg_call.scores \ {"bad_debt_score"} : agg_call.scores[k] = One
    /\ agg_ret.score = FNum(<<187, 200>>)

\* the k-th smallest of the values xs, counted without sorting them
KthSmallest(xs, k) ==
    CHOOSE v \in {xs[i] : i \in 1..Len(xs)} :
        /\ Cardinality({i \in 1..Len(xs) : RLt(xs[i], v)}) < k
        /\ Cardinality({i \in 1..Len(xs) : RLe(xs[i], v)}) >= k

\* m is the median of xs
IsMedianOf(m, xs) ==
    LET n == Len(xs)
    IN  IF n % 2 = 1 THEN m = KthSmallest(xs, (n + 1) \div 2)
        ELSE RMul(m, <<2, 1>>)
                = RAdd(KthSmallest(xs, n \div 2), KthSmallest(xs, n \div 2 + 1))

\* the smallest of xs
MinimumOf(xs) == KthSmallest(xs, 1)

\* the category scores each interdependency score is taken over, on the dashboard
DashboardMomentumSubset ==
    <<agg_call.scores.aggregate_prob_drop_score, agg_call.scores.debt_ceiling_score,
      agg_call.scores.aggregate_cr_score,
      agg_call.scores.aggregate_borrower_distribution_score>>

DashboardVolatilitySubset ==
    <<agg_call.scores.aggregate_vol_ratio_score,
      agg_call.scores.sl_responsiveness_score,
      agg_call.scores.sl_profitability_score,
      agg_call.scores.aggregate_collateral_under_sl_score,
      agg_call.scores.aggregate_borrower_distribution_score>>

\* and in the playground, under the names the playground gives the categories
PlaygroundMomentumSubset ==
    <<agg_call.scores["Price Drop Probability"], agg_call.scores["Debt Ceiling"],
      agg_call.scores["Market Collateral Ratio"],
      agg_call.scores["Borrower Concentration"]>>

PlaygroundVolatilitySubset ==
    <<agg_call.scores["Volatility Performance"],
      agg_call.scores["SL Responsiveness"], agg_call.scores["Average Arb Profit"],
      agg_call.scores["% of Loans in SL"],
      agg_call.scores["Borrower Concentration"]>>

-----------------------------------------------------------------------------
(* Properties of get_ohlc and of the persisted bar series *)

\* the dates of the persisted rows
CsvDates(file) == {file.rows[i].timestamp : i \in 1..Len(file.rows)}

\* the last date of a persisted series
LastCsvDate(file) == CHOOSE d \in CsvDates(file) : \A e \in CsvDates(file) : e <= d

\* the calendar day of a unix time
DateOf(ts) == ts \div Day

\* a step of get_ohlc: the clock stands still while it runs
GetOhlcStep == clock' = clock /\ vars' # vars

\* the persisted series exists and its last date is today's or yesterday's
FreshAt(file, now_ts) ==
    file.exists /\ DateOf(now_ts) - LastCsvDate(file) <= 1

\* C16: get_ohlc requests prices in exactly two cases.  Without a persisted series
\* it asks from the lookback start on, and what it returns is persisted as daily
\* bars reaching from the lookback start to now.  With a persisted series whose
\* last date is more than one calendar day before now it asks from the last
\* persisted date on and never from before it, and persists the merged series,
\* which keeps every date it had.  With a fresh persisted series it makes no
\* request, returns the persisted series and leaves the file as it is.
C16_FetchOnlyWhenMissingOrStale ==
    [][GetOhlcStep =>
        /\ ~csv.exists =>
              /\ requests' # << >>
              /\ requests'[1] = six_months_ago
              /\ ohlc_ret'.kind = "return" =>
                    /\ csv'.exists
                    /\ ReadCsv(csv') = ohlc_ret'.df
                    /\ csv'.rows[1].timestamp = DateOf(six_months_ago)
                    /\ LastCsvDate(csv') >= DateOf(clock - NowSlack)
        /\ (csv.exists /\ ~FreshAt(csv, clock)) =>
              /\ requests' # << >>
              /\ requests'[1] = LastCsvDate(csv) * Day
              /\ \A i \in 1..Len(requests') : requests'[i] >= LastCsvDate(csv) * Day
              /\ ohlc_ret'.kind = "return" =>
                    /\ csv'.exists
                    /\ ReadCsv(csv') = ohlc_ret'.df
                    /\ CsvDates(csv) \subseteq CsvDates(csv')
                    /\ LastCsvDate(csv') >= DateOf(clock - NowSlack)
        /\ FreshAt(csv, clock) =>
              /\ requests' = << >>
              /\ csv' = csv
              /\ ohlc_ret'.kind = "return"
              /\ ohlc_ret'.df = ReadCsv(csv)
        /\ ohlc_ret'.kind # "return" => csv' = csv
    ]_vars

\* a call has found the persisted series stale, has asked for prices from its last
\* date on and has persisted a longer series
C16_Witness ==
    /\ ohlc_ret.kind = "return"
    /\ csv.exists
    /\ requests # << >>
    /\ requests[1] # six_months_ago
    /\ requests[1] \in {d * Day : d \in CsvDates(csv)}
    /\ LastCsvDate(csv) * Day > requests[1]

\* the rows of a persisted series are in ascending order of date, each date once
AscendingDates(file) ==
    \A i \in 1..Len(file.rows), j \in 1..Len(file.rows) :
        i < j => file.rows[i].timestamp < file.rows[j].timestamp

\* the daily bars of what a request from the last persisted date on brings in
NewlyFetchedBars(file, now_ts) ==
    LET last_date == [date |-> LastCsvDate(file), secs |-> 0]
        fetched == defillama_price(ToTimestamp(last_date), now_ts, gap_day, "ok")
    IN  create_daily_ohlc(SelectSeq(fetched.df,
                                    LAMBDA r : DtLt(last_date, r.timestamp)))

\* C17: after any sequence of get_ohlc calls the persisted series holds at most one
\* bar per date, in ascending order of date; when the series is merged with newly
\* fetched bars, every newly fetched bar is in the merged series as fetched (so on
\* a date that both have, the newly fetched bar is the one kept) and the persisted
\* bars of the other dates stay.
C17_OneBarPerDateNewestKept ==
    [][GetOhlcStep =>
        /\ AscendingDates(csv')
        /\ (csv.exists /\ ~FreshAt(csv, clock) /\ ohlc_ret'.kind = "return") =>
              LET new == NewlyFetchedBars(csv, clock)
                  new_dates == {new[i].timestamp.date : i \in 1..Len(new)}
                  merged == ReadCsv(csv')
              IN  /\ \A i \in 1..Len(new) :
                        \E j \in 1..Len(merged) : merged[j] = new[i]
                  /\ \A i \in 1..Len(csv.rows) :
                        csv.rows[i].timestamp \notin new_dates =>
                            \E j \in 1..Len(csv'.rows) : csv'.rows[j] = csv.rows[i]
                  /\ CsvDates(csv') = CsvDates(csv) \cup new_dates
    ]_vars

\* a merged series has been persisted: the request started at the midnight of a
\* date that was persisted already, and the series has a bar of that date and
\* bars of later dates
C17_Witness ==
    /\ ohlc_ret.kind = "return"
    /\ csv.exists
    /\ requests # << >>
    /\ \E i \in 1..Len(csv.rows) :
          /\ csv.rows[i].timestamp * Day = requests[1]
          /\ i < Len(csv.rows)
          /\ csv.rows[i].open.k = "num"
    /\ AscendingDates(csv)

\* C18: once a bar of a date is persisted, no later get_ohlc call changes the open,
\* high, low or close persisted for that date.
C18_PersistedBarsNeverChange ==
    [][csv.exists =>
          \A i \in 1..Len(csv.rows) :
              \E j \in 1..Len(csv'.rows) : csv'.rows[j] = csv.rows[i]
    ]_vars

\* the four prices of a bar are numbers with low <= open <= high and
\* low <= close <= high
BarInvariant(bar) ==
    /\ bar.open.k = "num" /\ bar.high.k = "num"
    /\ bar.low.k = "num" /\ bar.close.k = "num"
    /\ RLe(bar.low.v, bar.open.v) /\ RLe(bar.open.v, bar.high.v)
    /\ RLe(bar.low.v, bar.close.v) /\ RLe(bar.close.v, bar.high.v)

\* C19: every bar of the persisted series, after any sequence of get_ohlc calls,
\* is a daily bar with open the first, high the largest, low the smallest and
\* close the last price of its day, hence with low <= open <= high and
\* low <= close <= high.
C19_PersistedBarsKeepBarInvariant ==
    csv.exists => \A i \in 1..Len(csv.rows) : BarInvariant(csv.rows[i])

-----------------------------------------------------------------------------
(* Properties of defillama_price *)

\* the last timestamp the call has seen: that of the last row of the last page
\* it got, the start time it was called with before any page
LastSeenTs ==
    IF call_price_data_join = << >> THEN call_query_time_from
    ELSE call_price_data_join[Len(call_price_data_join)].timestamp

\* the timestamps of a frame are in strictly ascending order
StrictlyAscending(df) ==
    \A i \in 1..Len(df), j \in 1..Len(df) :
        i < j => DtLt(df[i].timestamp, df[j].timestamp)

\* C20: defillama_price asks for contiguous pages: its first request starts at the
\* start time it was called with and every later request at the last timestamp of
\* the page before; it makes a request only while the last timestamp seen is more
\* than 4000 s before the time it read at its start, and returns only once it is
\* within 4000 s of it; the frame returned has every timestamp of the pages once,
\* in ascending order.
C20_ContiguousPagesUniqueSorted ==
    [][/\ requests' # requests =>
             /\ requests' = Append(requests, LastSeenTs)
             /\ requests = << >> => requests'[1] = call_query_time_from
             /\ LastSeenTs + 4000 < call_current_timestamp
       /\ (price_ret.kind = "none" /\ price_ret'.kind = "return") =>
             /\ LastSeenTs + 4000 >= call_current_timestamp
             /\ StrictlyAscending(price_ret'.df)
             /\ {ToTimestamp(price_ret'.df[i].timestamp) :
                     i \in 1..Len(price_ret'.df)}
                  = {call_price_data_join[i].timestamp :
                         i \in 1..Len(call_price_data_join)}
             /\ \A i \in 1..Len(price_ret'.df) :
                   \E j \in 1..Len(call_price_data_join) :
                       /\ call_price_data_join[j].timestamp
                              = ToTimestamp(price_ret'.df[i].timestamp)
                       /\ call_price_data_join[j].price = price_ret'.df[i].price
    ]_vars

\* a call has returned after three requests or more, and the frame has fewer rows
\* than the pages had together: the rows shared by two pages are there once
C20_Witness ==
    /\ price_ret.kind = "return"
    /\ Len(requests) >= 3
    /\ requests[1] = call_query_time_from
    /\ Len(price_ret.df) = Len(call_price_data_join) - (Len(requests) - 1)
    /\ StrictlyAscending(price_ret.df)

-----------------------------------------------------------------------------
(* Properties of score_bad_debt against the dashboard's caption *)

\* C27: as the dashboard's caption says (main.py line 209), the bad-debt score is
\* 100% with zero bad debt, 50% when bad debt is 0.1% of the total debt, and 0%
\* when bad debt exceeds 1% of the total debt.
C27_BadDebtScoreAsCaptioned ==
    (BadDebtCallDone /\ TotalDebtOf > 0) =>
        /\ ret.kind = "return"
        /\ BadDebtOf = 0 => ret.val = One
        /\ 1000 * BadDebtOf = TotalDebtOf => ret.val = Half
        /\ 100 * BadDebtOf > TotalDebtOf => ret.val = Zero

\* the score of a whole-number bad debt b of a total debt d
ScoreOfBadDebt(b, d) == score_bad_debt(Rat(b, 1), Rat(d, 1))

\* C30: for a total debt D > 0, score_bad_debt is non-increasing in bad debt: no
\* bad debt smaller than the one scored (and none equal) has a lower score.
C30_BadDebtScoreNonIncreasing ==
    (BadDebtCallDone /\ TotalDebtOf > 0) =>
        \A smaller \in 0..BadDebtOf :
            /\ ScoreOfBadDebt(smaller, TotalDebtOf).kind = "return"
            /\ ret.kind = "return"
            /\ RGe(ScoreOfBadDebt(smaller, TotalDebtOf).val, ret.val)

-----------------------------------------------------------------------------
(* Properties of the page loop of defillama_price *)

\* C21: between any two successive page requests of a call of defillama_price the
\* pause of 0.5 s is made: every request but the first comes half a second or
\* more after the request before it.
C21_PauseBetweenRequests ==
    \A i \in 1..(Len(request_at) - 1) : request_at[i + 1] - request_at[i] >= 500

\* a call has made three requests or more and has returned, and two successive
\* requests of it were no further apart than the pause
C21_Witness ==
    /\ price_ret.kind = "return"
    /\ Len(request_at) >= 3
    /\ \E i \in 1..(Len(request_at) - 1) : request_at[i + 1] - request_at[i] = 500

\* C28: the page loop of defillama_price ends for every sequence of replies.  The
\* start of the next request is a whole number of seconds and the loop ends once
\* it is within 4000 s of the time read at the start, so the loop ends after
\* finitely many requests when every request either ends the call in an error or
\* moves the start of the next request forward; a request that leaves the call
\* where it stood is made again, and for ever when the reply stays the same.
C28_EveryRequestEndsOrAdvances ==
    [][requests' # requests =>
          \/ price_ret'.kind = "raise"
          \/ call_last_round_ts' > call_last_round_ts
    ]_vars

-----------------------------------------------------------------------------
(* Properties of get_ohlc when prices are missing or the fetch fails *)

\* C22: for a brand-new market (no persisted series, and the price service has no
\* price point for it) get_ohlc returns an empty series and not an error, so that
\* the statistics computed from it (calculate_volatility_ratio and
\* analyze_price_drops, which both begin by calling get_ohlc) come out undefined
\* instead of crashing.
C22_BrandNewMarketGivesEmptySeries ==
    [][(GetOhlcStep /\ ~csv.exists /\ gap_day = NoRecords) =>
          /\ ohlc_ret'.kind = "return"
          /\ ohlc_ret'.df = << >>
    ]_vars

\* C29: a get_ohlc call that ends in an error (a request fails, a page is
\* malformed or empty, the conversion fails) leaves the persisted series exactly
\* as it was, and the cache of fetched prices too: a later run starts from the
\* same cached state.
C29_FailedCallWritesNothing ==
    [][(GetOhlcStep /\ ohlc_ret'.kind = "raise") =>
          /\ csv' = csv
          /\ price_memo' = price_memo
    ]_vars

\* a call has ended in an error after a request, while a series of several days
\* was persisted: the series is still there
C29_Witness ==
    /\ ohlc_ret.kind = "raise"
    /\ requests # << >>
    /\ csv.exists
    /\ Len(csv.rows) >= 2

-----------------------------------------------------------------------------
(* Properties of the evaluation of a market *)

\* a fetch that failed: a status that is not a success, or a body without the
\* payload
FailedReply(reply) == reply.status >= 400 \/ reply.body # "ok"

\* C23: when a fetch of get_market_snapshots, get_market_health, defillama_price,
\* get_soft_liquidation_ratio or Market.get_active_markets fails (non-success
\* status or malformed payload), the evaluation of the market ends in a reported
\* error, no score is computed from the failed reply, and the request is not
\* made again: it is the last request of the evaluation.
C23_FailedFetchEndsEvaluation ==
    \A i \in 1..Len(eval_log) :
        FailedReply(eval_log[i].reply) =>
            /\ eval_pc = "error"
            /\ eval_error # "none"
            /\ i = Len(eval_log)
            /\ \A s \in eval_scores : eval_log[i].step \notin s.from

-----------------------------------------------------------------------------
(* Properties of Market and of the stores keyed by it *)

\* two addresses are the same but for the case of their letters
SameIgnoringCase(x, y) ==
    /\ Len(x) = Len(y)
    /\ \A i \in 1..Len(x) : (x[i] \in {"a", "A"}) <=> (y[i] \in {"a", "A"})

\* C24: cached and memoized price data is keyed by (market identity, chain,
\* window): what a call of get_ohlc or defillama_price returns was fetched for the
\* controller address of its market (but for case) and for its chain, and what a
\* call of defillama_price returns was fetched from the start it asks for.
C24_PricesKeyedByMarketChainWindow ==
    mkt_call.fn # "none" =>
        \A p \in mkt_ret.prices :
            /\ SameIgnoringCase(p.controller, mkt_call.market_obj.controller)
            /\ p.chain = mkt_call.chain
            /\ mkt_call.fn = "defillama_price" =>
                  p.window = mkt_call.query_time_from

\* the entries of the cache made for the controller (but for case), the start and
\* the chain of a call
EntriesFor(c) ==
    {i \in 1..Len(lru) :
        /\ SameIgnoringCase(lru[i].market_obj.controller, c.market_obj.controller)
        /\ lru[i].query_time_from = c.query_time_from
        /\ lru[i].chain = c.chain}

\* C25: two Markets are equal exactly when their controller addresses are equal
\* but for the case of the letters, whatever their other fields, and equal Markets
\* have equal hashes; so a call of defillama_price is answered from the cache
\* exactly when the cache has an entry made for an equal Market (and the same
\* start and chain), and it is answered with that entry.
C25_MarketEqualityByController ==
    [][mkt_calls' # mkt_calls =>
          /\ \A i \in 1..Len(lru) :
                LET same == SameIgnoringCase(lru[i].market_obj.controller,
                                             mkt_call'.market_obj.controller)
                IN  /\ MarketEq(lru[i].market_obj, mkt_call'.market_obj) <=> same
                    /\ MarketEq(mkt_call'.market_obj, lru[i].market_obj) <=> same
                    /\ same => MarketHash(lru[i].market_obj)
                                   = MarketHash(mkt_call'.market_obj)
          /\ mkt_call'.fn = "defillama_price" =>
                /\ mkt_ret'.hit <=> EntriesFor(mkt_call') # {}
                /\ mkt_ret'.hit =>
                      /\ lru' = lru
                      /\ \A i \in EntriesFor(mkt_call') :
                            mkt_ret'.prices = {lru[i].prices}
                /\ Cardinality(EntriesFor(mkt_call')) <= 1
    ]_vars

\* a call of defillama_price has been answered from the cache with the prices
\* fetched for a Market of another name whose controller address is written in
\* another case
C25_Witness ==
    /\ mkt_call.fn = "defillama_price"
    /\ mkt_ret.hit
    /\ \E i \in 1..Len(lru) :
          /\ mkt_ret.prices = {lru[i].prices}
          /\ lru[i].market_obj.controller # mkt_call.market_obj.controller
          /\ lru[i].market_obj.market # mkt_call.market_obj.market

-----------------------------------------------------------------------------
(* Properties of two runs at once *)

\* C26: the evaluations of two distinct markets run in parallel share no mutable
\* state: no persisted series is read or written by both, and no step of either
\* loses a persisted series or puts an older one in the place of a newer one.
C26_ParallelEvaluationsShareNothing ==
    [][\A path \in SeriesNames :
          /\ Cardinality(touched'[path]) <= 1
          /\ shared_dir[path].exists =>
                /\ shared_dir'[path].exists
                /\ shared_dir'[path].as_of >= shared_dir[path].as_of]_vars

====
